---- MODULE Spec2Model ----
(***************************************************************************)
(* Intent extraction and validation layer of teller.ai:                    *)
(*   chatbot/core/llm/base.py        BaseLLM (validation, response parser) *)
(*   chatbot/core/llm/{mistral,tinyllama,gpt}  the three backends          *)
(*   chatbot/core/agent/agent.py     Agent (the engine) and the model cache*)
(*                                                                         *)
(* Texts are TLA+ strings, handled character by character.  The modelled   *)
(* alphabet is printable ASCII plus space, tab, newline and carriage       *)
(* return.  A value computed once and used several times is handed to a    *)
(* helper operator as an argument, as the Python code binds it to a local  *)
(* variable.                                                               *)
(***************************************************************************)
EXTENDS Integers, Sequences, FiniteSets, TLC

(***************************************************************************)
(* State                                                                   *)
(***************************************************************************)

VARIABLES
    cache,   \* _model_cache: identity -> backend object or NoBackend
    agents,  \* the Agent objects: built, self.model, self.agent
    last,    \* the most recent call: what it was run on and its outcome
    log,     \* history: the constructor calls of the run in order and its first
             \* clear; in the runs of the parser, its calls and their outcomes
    threads, \* per thread: where it is in Agent.__init__ or in a query
    session, \* st.session_state of one browser session (main.py)
    clock,   \* time.time(), in whole seconds
    db       \* the row db.addQuery stored last, <<>> before the first

\* the state of the chat UI
ui == <<session, clock, db>>

vars == <<cache, agents, last, log, threads, session, clock, db>>

(***************************************************************************)
(* Python str operations used by base.py                                   *)
(***************************************************************************)

\* s[i-1] in Python terms: the one-character string at 1-based position i
Ch(s, i) == SubSeq(s, i, i)

\* the characters str.strip() removes (restricted to the modelled alphabet)
Whitespace == {" ", "\t", "\n", "\r"}

Digits == {"0", "1", "2", "3", "4", "5", "6", "7", "8", "9"}

\* the first position at or after i whose character is outside set, Len(s) + 1
\* when there is none
FirstNotIn(s, i, set) ==
    CHOOSE j \in i..(Len(s) + 1) :
        /\ j = Len(s) + 1 \/ Ch(s, j) \notin set
        /\ \A m \in i..(j - 1) : Ch(s, m) \in set

\* the first position at or after i whose character is in set, Len(s) + 1 when
\* there is none
FirstIn(s, i, set) ==
    CHOOSE j \in i..(Len(s) + 1) :
        /\ j = Len(s) + 1 \/ Ch(s, j) \in set
        /\ \A m \in i..(j - 1) : Ch(s, m) \notin set

\* the last position whose character is outside set, 0 when there is none
LastNotIn(s, set) ==
    CHOOSE j \in 0..Len(s) :
        /\ j = 0 \/ Ch(s, j) \notin set
        /\ \A m \in (j + 1)..Len(s) : Ch(s, m) \in set

\* s[i-1:j], "" when the slice is empty
Slice(s, i, j) == IF i > j THEN "" ELSE SubSeq(s, i, j)

\* str.strip()
strip(s) == Slice(s, FirstNotIn(s, 1, Whitespace), LastNotIn(s, Whitespace))

\* the lower-case letter of each upper-case letter
ToLower ==
    "A" :> "a" @@ "B" :> "b" @@ "C" :> "c" @@ "D" :> "d" @@ "E" :> "e" @@
    "F" :> "f" @@ "G" :> "g" @@ "H" :> "h" @@ "I" :> "i" @@ "J" :> "j" @@
    "K" :> "k" @@ "L" :> "l" @@ "M" :> "m" @@ "N" :> "n" @@ "O" :> "o" @@
    "P" :> "p" @@ "Q" :> "q" @@ "R" :> "r" @@ "S" :> "s" @@ "T" :> "t" @@
    "U" :> "u" @@ "V" :> "v" @@ "W" :> "w" @@ "X" :> "x" @@ "Y" :> "y" @@
    "Z" :> "z"

\* the upper-case letter of each lower-case letter
ToUpper ==
    "a" :> "A" @@ "b" :> "B" @@ "c" :> "C" @@ "d" :> "D" @@ "e" :> "E" @@
    "f" :> "F" @@ "g" :> "G" @@ "h" :> "H" @@ "i" :> "I" @@ "j" :> "J" @@
    "k" :> "K" @@ "l" :> "L" @@ "m" :> "M" @@ "n" :> "N" @@ "o" :> "O" @@
    "p" :> "P" @@ "q" :> "Q" @@ "r" :> "R" @@ "s" :> "S" @@ "t" :> "T" @@
    "u" :> "U" @@ "v" :> "V" @@ "w" :> "W" @@ "x" :> "X" @@ "y" :> "Y" @@
    "z" :> "Z"

\* the letter table gives for c, c itself when it gives none
MapCh(c, table) == IF c \in DOMAIN table THEN table[c] ELSE c

\* str.lower()
RECURSIVE lower(_)
lower(s) ==
    IF Len(s) = 0 THEN ""
    ELSE IF Len(s) = 1 THEN MapCh(s, ToLower)
    ELSE lower(SubSeq(s, 1, Len(s) \div 2))
             \o lower(SubSeq(s, Len(s) \div 2 + 1, Len(s)))

\* str.upper()
RECURSIVE upper(_)
upper(s) ==
    IF Len(s) = 0 THEN ""
    ELSE IF Len(s) = 1 THEN MapCh(s, ToUpper)
    ELSE upper(SubSeq(s, 1, Len(s) \div 2))
             \o upper(SubSeq(s, Len(s) \div 2 + 1, Len(s)))

RECURSIVE split(_)
RECURSIVE SplitAt(_, _)

\* str.split("\n") with n the position of the first line break
SplitAt(s, n) ==
    IF n > Len(s) THEN <<s>>
    ELSE <<SubSeq(s, 1, n - 1)>> \o split(SubSeq(s, n + 1, Len(s)))

\* str.split("\n"): a sequence of strings, never empty
split(s) == SplitAt(s, FirstIn(s, 1, {"\n"}))

\* "\n".join(lines)
RECURSIVE join(_)
join(lines) ==
    IF Len(lines) = 0 THEN ""
    ELSE IF Len(lines) = 1 THEN lines[1]
    ELSE lines[1] \o "\n" \o join(Tail(lines))

(***************************************************************************)
(* json.loads, as called at base.py:89.  A decoded value is a record       *)
(* [t, s, m]: t the Python type ("str", "num", "lit", "list", "dict"),     *)
(* s the text of a string, number or literal, m the items of a list or     *)
(* the <<key, value>> members of a dict in source order.                   *)
(***************************************************************************)

JStr(txt) == [t |-> "str", s |-> txt, m |-> <<>>]

JNum(txt) == [t |-> "num", s |-> txt, m |-> <<>>]

JLit(txt) == [t |-> "lit", s |-> txt, m |-> <<>>]

JList(items) == [t |-> "list", s |-> "", m |-> items]

JDict(members) == [t |-> "dict", s |-> "", m |-> members]

\* a scan that failed (json.JSONDecodeError)
JFail == [ok |-> FALSE, v |-> JLit("null"), end |-> 0]

\* a scan that produced v and stopped before position end
JOk(v, end) == [ok |-> TRUE, v |-> v, end |-> end]

\* json.decoder WHITESPACE.match(s, i).end()
SkipWs(s, i) == IF i > Len(s) THEN i ELSE FirstNotIn(s, i, Whitespace)

\* s[i-1] == c, false past the end of s
At(s, i, c) == i <= Len(s) /\ Ch(s, i) = c

\* the character a backslash escape stands for, "" when the escape is
\* rejected (\b and \uXXXX lie outside the modelled alphabet)
Unescape(e) ==
    CASE e = "\"" -> "\""
      [] e = "\\" -> "\\"
      [] e = "/" -> "/"
      [] e = "n" -> "\n"
      [] e = "t" -> "\t"
      [] e = "r" -> "\r"
      [] OTHER -> ""

RECURSIVE ScanString(_, _, _)
RECURSIVE ScanStringAt(_, _, _, _)

\* one round of py_scanstring: p is the position of the next quote, backslash
\* or control character at or after i (the end of the STRINGCHUNK match)
ScanStringAt(s, i, acc, p) ==
    IF p > Len(s) THEN JFail
    ELSE IF Ch(s, p) = "\"" THEN JOk(JStr(acc \o SubSeq(s, i, p - 1)), p + 1)
    ELSE IF Ch(s, p) # "\\" THEN JFail
    ELSE IF p + 1 > Len(s) \/ Unescape(Ch(s, p + 1)) = "" THEN JFail
    ELSE ScanString(s, p + 2,
                    acc \o SubSeq(s, i, p - 1) \o Unescape(Ch(s, p + 1)))

\* json.decoder.py_scanstring (strict): i is the position after the opening
\* quote, acc the content read so far; a raw control character or an
\* unterminated string is an error
ScanString(s, i, acc) ==
    IF i > Len(s) THEN JFail
    ELSE ScanStringAt(s, i, acc, FirstIn(s, i, {"\"", "\\", "\n", "\t", "\r"}))

SkipDigits(s, i) == FirstNotIn(s, i, Digits)

\* NUMBER_RE, the sign: the position after an optional '-'
SignEnd(s, i) == IF At(s, i, "-") THEN i + 1 ELSE i

\* NUMBER_RE, the integer part (0|[1-9]\d*) at a: the position after it, 0
\* when there is none
IntEnd(s, a) ==
    IF At(s, a, "0") THEN a + 1
    ELSE IF a <= Len(s) /\ Ch(s, a) \in Digits THEN SkipDigits(s, a)
    ELSE 0

\* NUMBER_RE, the optional fraction (\.\d+)? at b
FracEnd(s, b) ==
    IF b # 0 /\ At(s, b, ".") /\ b + 1 <= Len(s) /\ Ch(s, b + 1) \in Digits
    THEN SkipDigits(s, b + 1) ELSE b

\* NUMBER_RE, the optional exponent ([eE][-+]?\d+)? at c
ExpEnd(s, c) ==
    IF c = 0 \/ c > Len(s) \/ Ch(s, c) \notin {"e", "E"} THEN c
    ELSE IF c + 1 <= Len(s) /\ Ch(s, c + 1) \in Digits THEN SkipDigits(s, c + 1)
    ELSE IF c + 2 <= Len(s) /\ Ch(s, c + 1) \in {"+", "-"}
                /\ Ch(s, c + 2) \in Digits
    THEN SkipDigits(s, c + 2)
    ELSE c

\* json.scanner NUMBER_RE  (-?(?:0|[1-9]\d*))(\.\d+)?([eE][-+]?\d+)?  matched
\* at i: the position after the match, 0 when there is no match
NumberEnd(s, i) == ExpEnd(s, FracEnd(s, IntEnd(s, SignEnd(s, i))))

\* s[i-1:].startswith(w)
StartsAt(s, i, w) == i + Len(w) - 1 <= Len(s) /\ SubSeq(s, i, i + Len(w) - 1) = w

JsonLiterals == <<"null", "true", "false", "NaN", "Infinity", "-Infinity">>

\* the literal w read at i
ScanLiteral(i, w) == JOk(JLit(w), i + Len(w))

\* _scan_once past strings, objects and arrays: n is NumberEnd(s, i)
ScanNumberOrLiteral(s, i, n) ==
    IF n # 0 THEN JOk(JNum(SubSeq(s, i, n - 1)), n)
    ELSE IF \E k \in 1..Len(JsonLiterals) : StartsAt(s, i, JsonLiterals[k])
    THEN ScanLiteral(i, JsonLiterals[CHOOSE k \in 1..Len(JsonLiterals) :
                                         StartsAt(s, i, JsonLiterals[k])])
    ELSE JFail

RECURSIVE ScanOnce(_, _)
RECURSIVE ScanMembers(_, _, _)
RECURSIVE MemberKey(_, _, _)
RECURSIVE MemberColon(_, _, _, _)
RECURSIVE MemberValue(_, _, _, _)
RECURSIVE MemberEnd(_, _, _)
RECURSIVE MemberNext(_, _, _)
RECURSIVE ScanItems(_, _, _)
RECURSIVE ItemValue(_, _, _)
RECURSIVE ItemEnd(_, _, _)
RECURSIVE ObjectAt(_, _)
RECURSIVE ArrayAt(_, _)

\* JSONObject: after ',' and blanks, at q, the next key must open
MemberNext(s, members, q) ==
    IF At(s, q, "\"") THEN ScanMembers(s, q + 1, members) ELSE JFail

\* JSONObject: after a value and blanks, at e: '}' ends the object, ','
\* announces another member
MemberEnd(s, members, e) ==
    IF e > Len(s) THEN JFail
    ELSE IF Ch(s, e) = "}" THEN JOk(JDict(members), e + 1)
    ELSE IF Ch(s, e) # "," THEN JFail
    ELSE MemberNext(s, members, SkipWs(s, e + 1))

\* JSONObject: the value v of key k has been scanned
MemberValue(s, acc, k, v) ==
    IF ~v.ok THEN JFail
    ELSE MemberEnd(s, Append(acc, <<k.v.s, v.v>>), SkipWs(s, v.end))

\* JSONObject: after the key k and blanks, at c, a ':' and the value
MemberColon(s, acc, k, c) ==
    IF ~At(s, c, ":") THEN JFail
    ELSE MemberValue(s, acc, k, ScanOnce(s, SkipWs(s, c + 1)))

\* JSONObject: the key k has been scanned
MemberKey(s, acc, k) ==
    IF ~k.ok THEN JFail ELSE MemberColon(s, acc, k, SkipWs(s, k.end))

\* json.decoder.JSONObject, one member: i is the position after the key's
\* opening quote, acc the members read so far
ScanMembers(s, i, acc) == MemberKey(s, acc, ScanString(s, i, ""))

\* JSONArray: after an item and blanks, at e: ']' ends the array, ','
\* announces another item
ItemEnd(s, items, e) ==
    IF e > Len(s) THEN JFail
    ELSE IF Ch(s, e) = "]" THEN JOk(JList(items), e + 1)
    ELSE IF Ch(s, e) # "," THEN JFail
    ELSE ScanItems(s, SkipWs(s, e + 1), items)

\* JSONArray: the item v has been scanned
ItemValue(s, acc, v) ==
    IF ~v.ok THEN JFail ELSE ItemEnd(s, Append(acc, v.v), SkipWs(s, v.end))

\* json.decoder.JSONArray, one item at i
ScanItems(s, i, acc) == ItemValue(s, acc, ScanOnce(s, i))

\* JSONObject: after '{' and blanks, at q
ObjectAt(s, q) ==
    IF q > Len(s) THEN JFail
    ELSE IF Ch(s, q) = "}" THEN JOk(JDict(<<>>), q + 1)
    ELSE IF Ch(s, q) = "\"" THEN ScanMembers(s, q + 1, <<>>)
    ELSE JFail

\* JSONArray: after '[' and blanks, at q
ArrayAt(s, q) ==
    IF At(s, q, "]") THEN JOk(JList(<<>>), q + 1) ELSE ScanItems(s, q, <<>>)

\* json.scanner.py_make_scanner._scan_once
ScanOnce(s, i) ==
    IF i > Len(s) THEN JFail
    ELSE IF Ch(s, i) = "\"" THEN ScanString(s, i + 1, "")
    ELSE IF Ch(s, i) = "{" THEN ObjectAt(s, SkipWs(s, i + 1))
    ELSE IF Ch(s, i) = "[" THEN ArrayAt(s, SkipWs(s, i + 1))
    ELSE ScanNumberOrLiteral(s, i, NumberEnd(s, i))

\* JSONDecoder.decode after raw_decode: text after the value is "Extra data"
DecodeEnd(s, r) ==
    IF ~r.ok THEN JFail
    ELSE IF SkipWs(s, r.end) # Len(s) + 1 THEN JFail
    ELSE r

\* json.loads that decodes from the first '{' of s and ignores the text
\* around the value
json_loads_span(s) ==
    IF FirstIn(s, 1, {"{"}) > Len(s) THEN JFail
    ELSE ScanOnce(s, FirstIn(s, 1, {"{"}))

\* json.loads(s) for a str s
json_loads(s) == DecodeEnd(s, ScanOnce(s, SkipWs(s, 1)))

(***************************************************************************)
(* Outcome of a Python call: a returned tuple of strings, or an exception  *)
(***************************************************************************)

Return(v) == [raised |-> FALSE, exc |-> "", val |-> v]

Raise(e) == [raised |-> TRUE, exc |-> e, val |-> <<>>]

(***************************************************************************)
(* BaseLLM, base.py                                                        *)
(***************************************************************************)

VALID_INTENTS ==
    {"account_balance", "transaction_history", "transfer_money",
     "card_issues", "loan_inquiry", "general_inquiry"}

VALID_SENTIMENTS == {"POSITIVE", "NEGATIVE", "NEUTRAL"}

\* `if x not in valid: return default` / `return x`
MemberOrDefault(x, valid, default) ==
    IF x \notin valid THEN Return(<<default>>) ELSE Return(<<x>>)

\* _validate_intent without the membership test
_validate_intent_unchecked(intent) ==
    IF intent.t # "str" THEN Raise("AttributeError")
    ELSE Return(<<strip(lower(intent.s))>>)

\* BaseLLM._validate_intent: intent is any Python value; .lower() exists on
\* str only
_validate_intent(intent) ==
    IF intent.t # "str" THEN Raise("AttributeError")
    ELSE MemberOrDefault(strip(lower(intent.s)), VALID_INTENTS, "general_inquiry")

\* _validate_sentiment without the membership test
_validate_sentiment_unchecked(sentiment) ==
    IF sentiment.t # "str" THEN Raise("AttributeError")
    ELSE Return(<<strip(upper(sentiment.s))>>)

\* BaseLLM._validate_sentiment
_validate_sentiment(sentiment) ==
    IF sentiment.t # "str" THEN Raise("AttributeError")
    ELSE MemberOrDefault(strip(upper(sentiment.s)), VALID_SENTIMENTS, "NEUTRAL")

\* the members of the dict data whose key is key
KeyHits(data, key) == {k \in 1..Len(data.m) : data.m[k][1] = key}

\* the value of the last member among hits
LastHit(data, hits, default) ==
    IF hits = {} THEN default
    ELSE data.m[CHOOSE k \in hits : \A h \in hits : h <= k][2]

\* dict.get(key, default): the last member with that key wins
dict_get(data, key, default) == LastHit(data, KeyHits(data, key), default)

\* base.py:92-94 returning the pair whatever the response is
TryJsonResult_blankok(intent, response) == Return(<<intent.val[1], response>>)

\* base.py:92-94: an empty response is a ValueError
TryJsonResult(intent, response) ==
    IF response = "" THEN Raise("ValueError")
    ELSE Return(<<intent.val[1], response>>)

\* base.py:90-94 returning the response as decoded, untrimmed
TryJsonFields_untrimmed(intent, r) ==
    IF intent.raised THEN intent
    ELSE IF r.t # "str" THEN Raise("AttributeError")
    ELSE IF strip(r.s) = "" THEN Raise("ValueError")
    ELSE Return(<<intent.val[1], r.s>>)

\* base.py:90-94: intent is the outcome of _validate_intent, r the value of
\* data.get("response", ""), on which .strip() is called
TryJsonFields(intent, r) ==
    IF intent.raised THEN intent
    ELSE IF r.t # "str" THEN Raise("AttributeError")
    ELSE TryJsonResult(intent, strip(r.s))

\* base.py:89-94: d is the outcome of json.loads; .get exists on dict only
TryJsonDecoded(d) ==
    IF ~d.ok THEN Raise("JSONDecodeError")
    ELSE IF d.v.t # "dict" THEN Raise("AttributeError")
    ELSE TryJsonFields(_validate_intent(dict_get(d.v, "intent", JStr("unknown"))),
                       dict_get(d.v, "response", JStr("")))

\* base.py:88-94, the body of the try block for a str raw_response
TryJson(text) == TryJsonDecoded(json_loads(text))

\* base.py:103-105
LineFallbackResult(intent, response) ==
    IF response = "" THEN Raise("ValueError")
    ELSE Return(<<intent.val[1], response>>)

\* base.py:100-106 answering a text it cannot split with a fallback pair
LineFallbackLines_fallbackpair(lines) ==
    IF Len(lines) >= 2
    THEN LineFallbackResult(_validate_intent(JStr(strip(lines[1]))),
                            strip(join(Tail(lines))))
    ELSE Return(<<"unknown", "Unable to help with this at the moment.">>)

\* base.py:100-106
LineFallbackLines(lines) ==
    IF Len(lines) >= 2
    THEN LineFallbackResult(_validate_intent(JStr(strip(lines[1]))),
                            strip(join(Tail(lines))))
    ELSE Raise("ValueError")

\* the except block splitting the raw text without trimming it first
LineFallback_unstripped(text) == LineFallbackLines(split(text))

\* base.py:97-106, the except block
LineFallback(text) == LineFallbackLines(split(strip(text)))

\* the except clause (json.JSONDecodeError, ValueError) around the try block
\* whose outcome is j
ExceptDecodeOrValueError(text, j) ==
    IF j.raised /\ j.exc \in {"JSONDecodeError", "ValueError"}
    THEN LineFallback(text)
    ELSE j

\* one call of _parse_intent_response in the history: the text, the backend
\* object it was called on, and the outcome
ParseCall(text, by, res) == [ev |-> "parse", text |-> text, by |-> by, res |-> res]

\* a parser that keeps the texts it has seen and rejects a repeated one
_parse_intent_response_once(raw_response) ==
    IF raw_response.t # "str" THEN Raise("TypeError")
    ELSE IF \E i \in 1..Len(log) : log[i].ev = "parse" /\ log[i].text = raw_response.s
    THEN Raise("ValueError")
    ELSE ExceptDecodeOrValueError(raw_response.s, TryJson(raw_response.s))

\* BaseLLM._parse_intent_response: raw_response is any Python value;
\* json.loads of a non-str raises TypeError, which the except clause does not
\* catch
_parse_intent_response(raw_response) ==
    IF raw_response.t # "str" THEN Raise("TypeError")
    ELSE ExceptDecodeOrValueError(raw_response.s, TryJson(raw_response.s))

ApologyMessage ==
    "I apologize, but I'm having trouble processing your request. Please try again."

\* _handle_error answering with the intent "unknown"
_handle_error_unknown == Return(<<"unknown", ApologyMessage>>)

\* BaseLLM._handle_error
_handle_error == Return(<<"error", ApologyMessage>>)

(***************************************************************************)
(* The three backends.  The model object behind a backend (llama_cpp.Llama *)
(* or the OpenAI client) is outside the repository: what one generation    *)
(* call hands back is an input, one of                                     *)
(*   LlmRaise       the call raised,                                       *)
(*   LlmText(t)     a str t,                                               *)
(*   LlmObject      a value that is not a str: the completion dict of      *)
(*                  llama_cpp for the local backends, a None message       *)
(*                  content for the hosted one.                            *)
(***************************************************************************)

LlmRaise == [kind |-> "raise", v |-> JLit("null")]

LlmText(t) == [kind |-> "value", v |-> JStr(t)]

LlmObject == [kind |-> "value", v |-> JDict(<<>>)]

\* x.strip() on any Python value
py_strip(x) ==
    IF x.t # "str" THEN Raise("AttributeError") ELSE Return(<<strip(x.s)>>)

\* `except Exception as e: return self._handle_error(e, ...)` around r
ExceptHandleError(r) == IF r.raised THEN _handle_error ELSE r

\* an except clause that catches ValueError only
ExceptHandleValueError(r) ==
    IF r.raised /\ r.exc = "ValueError" THEN _handle_error ELSE r

\* get_intent_and_response catching ValueError only
LocalGetIntentAndResponse_valueerror(out) ==
    IF out.kind = "raise" THEN _handle_error
    ELSE ExceptHandleValueError(_parse_intent_response(out.v))

\* Mistral.get_intent_and_response (mistral.py:50-65) and
\* TinyLlama.get_intent_and_response (tinyllama.py:35-50): the same code
LocalGetIntentAndResponse(out) ==
    IF out.kind = "raise" THEN _handle_error
    ELSE ExceptHandleError(_parse_intent_response(out.v))

\* gpt.py:46-47: c is the outcome of content.strip()
GptParseStripped(c) ==
    IF c.raised THEN _handle_error
    ELSE ExceptHandleError(_parse_intent_response(JStr(c.val[1])))

\* GPT.get_intent_and_response (gpt.py:27-55): the content is stripped
\* before it is parsed
GptGetIntentAndResponse(out) ==
    IF out.kind = "raise" THEN _handle_error
    ELSE GptParseStripped(py_strip(out.v))

\* `except Exception: return "NEUTRAL"` around r
ExceptNeutral(r) == IF r.raised THEN Return(<<"NEUTRAL">>) ELSE r

\* `except Exception` answering with the error tuple of _handle_error
ExceptErrorTuple(r) == IF r.raised THEN _handle_error ELSE r

\* mistral.py:83: c is the outcome of response.strip()
ValidateStripped(c) ==
    IF c.raised THEN c ELSE _validate_sentiment(JStr(c.val[1]))

\* analyze_sentiment answering a failed call the way get_intent_and_response
\* does, with the error tuple
BackendAnalyzeSentiment_errortuple(out) ==
    IF out.kind = "raise" THEN _handle_error
    ELSE ExceptErrorTuple(ValidateStripped(py_strip(out.v)))

\* Mistral/TinyLlama/GPT.analyze_sentiment: response.strip() is validated;
\* every exception is answered with NEUTRAL
BackendAnalyzeSentiment(out) ==
    IF out.kind = "raise" THEN Return(<<"NEUTRAL">>)
    ELSE ExceptNeutral(ValidateStripped(py_strip(out.v)))

\* dispatch of self.agent.get_intent_and_response on the backend's class
BackendGetIntentAndResponse(kind, out) ==
    IF kind = "gpt" THEN GptGetIntentAndResponse(out)
    ELSE LocalGetIntentAndResponse(out)

(***************************************************************************)
(* Agent and the process-wide model cache, agent.py                        *)
(***************************************************************************)

\* class LLM, in declaration order (LLM.get_values)
LLMValues == <<"mistral", "gpt", "tinyllama">>

Identities == {LLMValues[k] : k \in 1..Len(LLMValues)}

\* no entry in _model_cache / no self.agent attribute
NoBackend == [kind |-> "none", id |-> 0]

\* a constructed backend object of class kind; id tells objects apart
Backend(kind, id) == [kind |-> kind, id |-> id]

\* the outcome of _initialize_model: self.model, self.agent, the cache, and
\* whether it raised
Initialized(model, agent, c, raised) ==
    [model |-> model, agent |-> agent, cache |-> c, raised |-> raised]

\* a fallback that names the default identity whatever is cached
FirstCached_default(c) == "mistral"

\* agent.py:94-100: the first identity of LLM.get_values() that is cached
FirstCached(c) ==
    LLMValues[CHOOSE k \in 1..Len(LLMValues) :
                  /\ c[LLMValues[k]] # NoBackend
                  /\ \A h \in 1..(k - 1) : c[LLMValues[h]] = NoBackend]

\* an initialisation that takes whatever is cached before it looks at the
\* requested identity
_initialize_model_cachedfirst(model, c, ok, id) ==
    IF \E k \in Identities : c[k] # NoBackend
    THEN Initialized(FirstCached(c), c[FirstCached(c)], c, FALSE)
    ELSE IF model \in ok
    THEN Initialized(model, Backend(model, id),
                     [c EXCEPT ![model] = Backend(model, id)], FALSE)
    ELSE IF model # "mistral" /\ "mistral" \in ok
    THEN Initialized("mistral", Backend("mistral", id),
                     [c EXCEPT !["mistral"] = Backend("mistral", id)], FALSE)
    ELSE Initialized("mistral", NoBackend, c, model # "mistral")

\* an initialisation that constructs the requested backend on every call,
\* cached or not
_initialize_model_nocache(model, c, ok, id) ==
    IF model \in ok
    THEN Initialized(model, Backend(model, id),
                     [c EXCEPT ![model] = Backend(model, id)], FALSE)
    ELSE IF \E k \in Identities : c[k] # NoBackend
    THEN Initialized(FirstCached(c), c[FirstCached(c)], c, FALSE)
    ELSE IF model # "mistral" /\ "mistral" \in ok
    THEN Initialized("mistral", Backend("mistral", id),
                     [c EXCEPT !["mistral"] = Backend("mistral", id)], FALSE)
    ELSE Initialized("mistral", NoBackend, c, model # "mistral")

\* an initialisation whose fallbacks take another backend and leave
\* self.model as requested
_initialize_model_keepmodel(model, c, ok, id) ==
    IF c[model] # NoBackend
    THEN Initialized(model, c[model], c, FALSE)
    ELSE IF model \in ok
    THEN Initialized(model, Backend(model, id),
                     [c EXCEPT ![model] = Backend(model, id)], FALSE)
    ELSE IF \E k \in Identities : c[k] # NoBackend
    THEN Initialized(model, c[FirstCached(c)], c, FALSE)
    ELSE IF model # "mistral"
    THEN IF "mistral" \in ok
         THEN Initialized(model, Backend("mistral", id),
                          [c EXCEPT ![model] = Backend("mistral", id)], FALSE)
         ELSE Initialized(model, NoBackend, c, TRUE)
    ELSE Initialized(model, NoBackend, c, FALSE)

\* Agent._initialize_model (agent.py:67-107) for self.model = model, run with
\* the cache c.  ok is the set of backend classes whose constructor succeeds
\* (model file found, API key present); id names the object a constructor
\* call creates.  raised: the fallback Mistral() of line 106 raised, so
\* Agent.__init__ raises and no Agent exists.
_initialize_model(model, c, ok, id) ==
    IF c[model] # NoBackend
    THEN Initialized(model, c[model], c, FALSE)
    ELSE IF model \in ok
    THEN Initialized(model, Backend(model, id),
                     [c EXCEPT ![model] = Backend(model, id)], FALSE)
    ELSE IF \E k \in Identities : c[k] # NoBackend
    THEN Initialized(FirstCached(c), c[FirstCached(c)], c, FALSE)
    ELSE IF model # "mistral"
    THEN IF "mistral" \in ok
         THEN Initialized("mistral", Backend("mistral", id),
                          [c EXCEPT !["mistral"] = Backend("mistral", id)], FALSE)
         ELSE Initialized("mistral", NoBackend, c, TRUE)
    ELSE Initialized(model, NoBackend, c, FALSE)

\* one call of a backend constructor: the class, whether it returned an
\* object (ok) or raised, and the Agent whose __init__ made the call
Called(kind, ok, by) == [ev |-> "ctor", kind |-> kind, ok |-> ok, by |-> by]

\* one call of Agent.clear_cache
Cleared == [ev |-> "clear", kind |-> "", ok |-> FALSE, by |-> 0]

\* a fallback chain: after the requested class and Mistral, every other class
\* is tried in turn
ConstructorCalls_cascade(model, c, ok, by) ==
    IF c[model] # NoBackend THEN <<>>
    ELSE IF model \in ok THEN <<Called(model, TRUE, by)>>
    ELSE <<Called(model, FALSE, by)>>
         \o [i \in 1..2 |->
                Called((IF model = "mistral" THEN <<"gpt", "tinyllama">>
                        ELSE IF model = "gpt" THEN <<"mistral", "tinyllama">>
                        ELSE <<"mistral", "gpt">>)[i], FALSE, by)]

\* the constructor calls Agent._initialize_model (agent.py:67-107) makes for
\* self.model = model with the cache c, in order: none on a cache hit
\* (line 72-75), the requested class (lines 78-83), and Mistral (line 106)
\* only when the requested class raised, nothing is cached and the requested
\* class is not Mistral
ConstructorCalls(model, c, ok, by) ==
    IF c[model] # NoBackend THEN <<>>
    ELSE IF model \in ok THEN <<Called(model, TRUE, by)>>
    ELSE IF \E k \in Identities : c[k] # NoBackend
    THEN <<Called(model, FALSE, by)>>
    ELSE IF model # "mistral"
    THEN <<Called(model, FALSE, by), Called("mistral", "mistral" \in ok, by)>>
    ELSE <<Called(model, FALSE, by)>>

\* `except Exception: return "error", "I apologize, ..."` around r
ExceptErrorPair(r) ==
    IF r.raised THEN Return(<<"error", ApologyMessage>>) ELSE r

\* Agent.get_intent_and_response (agent.py:161-165) of an Agent whose
\* self.agent is backend; without the attribute the access raises
\* AttributeError inside the try
AgentGetIntentAndResponse(backend, out) ==
    ExceptErrorPair(IF backend = NoBackend THEN Raise("AttributeError")
                    ELSE BackendGetIntentAndResponse(backend.kind, out))

\* Agent.analyze_sentiment (agent.py:145-149)
AgentAnalyzeSentiment(backend, out) ==
    ExceptNeutral(IF backend = NoBackend THEN Raise("AttributeError")
                  ELSE BackendAnalyzeSentiment(out))

(***************************************************************************)
(* Completion texts a backend may hand back (bounded families)             *)
(***************************************************************************)

\* longest run of blanks put before or after a completion
MaxPad == 1

\* most lines of a completion that is not JSON
MaxLines == 3

\* number of Agent objects (and of threads that build and use them)
MaxAgents == 2

\* the JSON escape of one character
EscapeCh(c) ==
    CASE c = "\"" -> "\\\""
      [] c = "\\" -> "\\\\"
      [] c = "\n" -> "\\n"
      [] c = "\t" -> "\\t"
      [] c = "\r" -> "\\r"
      [] OTHER -> c

RECURSIVE EscapeStr(_)
EscapeStr(s) ==
    IF Len(s) = 0 THEN ""
    ELSE IF Len(s) = 1 THEN EscapeCh(s)
    ELSE EscapeStr(SubSeq(s, 1, Len(s) \div 2))
             \o EscapeStr(SubSeq(s, Len(s) \div 2 + 1, Len(s)))

\* the JSON string literal that denotes s
JsonString(s) == "\"" \o EscapeStr(s) \o "\""

\* the JSON object {"intent": I, "response": R} on one line
JsonObject(I, R) ==
    "{\"intent\": " \o JsonString(I) \o ", \"response\": " \o JsonString(R) \o "}"

\* the same object, one member per line
JsonObjectPretty(I, R) ==
    "{\n  \"intent\": " \o JsonString(I) \o ",\n  \"response\": "
        \o JsonString(R) \o "\n}"

\* intent tokens a model may answer with: the vocabulary, spellings of it,
\* and tokens outside it
IntentTokens ==
    VALID_INTENTS \cup
    {"Card_Issues", " transfer_money ", "ACCOUNT_LOCKED", "unknown", ""}

ResponseTexts ==
    {"Please call support.", " ok ", "", "  ", "Line one.\nLine two.",
     "Say \"hi\"."}

ObjectTexts ==
    {JsonObject(I, R) : I \in IntentTokens, R \in ResponseTexts}
    \cup {JsonObjectPretty(I, R) : I \in IntentTokens, R \in ResponseTexts}

\* JSON that is not such an object, and near-JSON
OddTexts ==
    {"{\"response\": \"Please call support.\"}",
     "{\"intent\": \"card_issues\"}",
     "{}",
     "{\"intent\": 5, \"response\": \"ok\"}",
     "{\"intent\": null, \"response\": \"ok\"}",
     "{\"intent\": [\"card_issues\"], \"response\": \"ok\"}",
     "{\"intent\": \"card_issues\", \"response\": null}",
     "{\"intent\": \"card_issues\", \"response\": 7}",
     "{\"intent\": \"loan_inquiry\", \"intent\": \"card_issues\", \"response\": \"ok\"}",
     "{\"intent\": \"card_issues\", \"response\": \"ok\", \"confidence\": 0.9}",
     "[{\"intent\": \"card_issues\", \"response\": \"ok\"}]",
     "{\"intent\": \"card_issues\", \"response\": \"ok\"",
     "{'intent': 'card_issues', 'response': 'ok'}",
     "42", "[]", "null", "\"card_issues\"",
     "not json at all"}

RECURSIVE Pads(_)
Pads(n) ==
    IF n = 0 THEN {""}
    ELSE Pads(n - 1) \cup {p \o c : p \in Pads(n - 1), c \in {" ", "\n"}}

\* what may precede and follow the JSON in a completion
Prefixes == Pads(MaxPad) \cup {"Sure! ", "Sure!\n"}

Suffixes == Pads(MaxPad) \cup {" Thanks.", "\nThanks."}

WrappedTexts ==
    {pre \o body \o post :
        pre \in Prefixes, body \in ObjectTexts \cup OddTexts, post \in Suffixes}

LineAtoms ==
    {"", "  ", "card_issues", " Card_Issues ", "ACCOUNT_LOCKED",
     "Your account is temporarily locked."}

\* the completions of n lines at most
LineTexts(n) ==
    {join(sq) : sq \in UNION {[1..k -> LineAtoms] : k \in 1..n}}

\* the raw completions the parser is run on
RawTexts == WrappedTexts \cup LineTexts(MaxLines)

\* the answers to an intent prompt that the Agent is run on
IntentCompletions ==
    {JsonObject(I, R) : I \in IntentTokens, R \in ResponseTexts}
    \cup OddTexts \cup LineTexts(2)
    \cup {"Sure! " \o JsonObject("card_issues", "Please call support.") \o " Thanks."}

\* the answers to a sentiment prompt
SentimentCompletions ==
    {"POSITIVE", "NEGATIVE", "NEUTRAL", "positive", " Negative\n", "Neutral.",
     "The sentiment is POSITIVE", "POSITIVE\nNEGATIVE", "MIXED", ""}

(***************************************************************************)
(* The Streamlit session state, main.py                                    *)
(***************************************************************************)

\* Python's None, and a value that is not None
None == <<>>

Some(x) == <<x>>

\* init_session_state (main.py:70-90): the defaults
defaults ==
    [user |-> None,
     welcome_spoken |-> FALSE,
     agent_model |-> "mistral",
     agent |-> None,
     loaded_model |-> None,
     user_query |-> "",
     query_id |-> 0,
     response |-> "",
     rating_submitted |-> FALSE,
     show_dashboard |-> FALSE,
     show_profile |-> FALSE,
     login_attempts |-> 0,
     last_login_attempt |-> None,
     request_count |-> 0,
     last_request_time |-> None,
     location |-> None,
     model_initialized |-> FALSE,
     chat_history |-> <<>>,
     profile_picture |-> None]

\* init_session_state() (main.py:68-95) on the session state s: every key
\* that s does not have gets its default, the others keep their value
init_session_state(s) ==
    [key \in DOMAIN defaults \cup DOMAIN s |->
        IF key \in DOMAIN s THEN s[key] ELSE defaults[key]]

\* a session that has just been opened (main.py:98): the state is the
\* defaults, nothing is stored, and time.time() is a positive number
UiStart ==
    /\ session = init_session_state(<<>>)
    /\ clock = 1
    /\ db = <<>>

(***************************************************************************)
(* Initial states and calls of the Agent                                   *)
(***************************************************************************)

AgentIds == 1..MaxAgents

\* no generation call was made
LlmNotCalled == [kind |-> "notcalled", v |-> JLit("null")]

\* the outcome of a call that has not run yet
Pending == [raised |-> FALSE, exc |-> "pending", val |-> <<>>]

EmptyCache == [k \in Identities |-> NoBackend]

\* a thread that is not inside any call of the Agent
Idle == [pc |-> "idle", model |-> "mistral", k |-> 0]

NoThreads == [t \in AgentIds |-> Idle]

NoAgent == [built |-> FALSE, model |-> "mistral", agent |-> NoBackend]

\* what one generation call of an Agent holding backend may hand back
LlmOutcomes(backend, texts) ==
    IF backend = NoBackend THEN {LlmNotCalled}
    ELSE {LlmRaise, LlmObject} \cup {LlmText(t) : t \in texts}

\* Agent.__init__ (agent.py:52-56) of the first Agent of a process: the cache
\* is empty, model is the requested identity, ok the backend classes that can
\* be constructed.  When __init__ raises there is no Agent to call.
Init ==
    \E model \in Identities, ok \in SUBSET Identities :
        LET r == _initialize_model(model, EmptyCache, ok, 1) IN
        /\ ~r.raised
        /\ cache = r.cache
        /\ agents = [a \in AgentIds |->
                        IF a = 1
                        THEN [built |-> TRUE, model |-> r.model, agent |-> r.agent]
                        ELSE NoAgent]
        /\ last = [op |-> "__init__", who |-> 1, llm |-> LlmNotCalled,
                   res |-> Return(<<r.model>>)]
        /\ log = ConstructorCalls(model, EmptyCache, ok, 1)
        /\ threads = NoThreads
        /\ UiStart

\* Agent.get_intent_and_response(query) on Agent a; out is what the
\* generation call hands back for the prompt built from query
GetIntentAndResponse(a, out) ==
    /\ agents[a].built
    /\ last' = [op |-> "get_intent_and_response", who |-> a, llm |-> out,
                res |-> AgentGetIntentAndResponse(agents[a].agent, out)]
    /\ UNCHANGED <<cache, agents, log, threads>>
    /\ UNCHANGED ui

\* Agent.analyze_sentiment(text) on Agent a
AnalyzeSentiment(a, out) ==
    /\ agents[a].built
    /\ last' = [op |-> "analyze_sentiment", who |-> a, llm |-> out,
                res |-> AgentAnalyzeSentiment(agents[a].agent, out)]
    /\ UNCHANGED <<cache, agents, log, threads>>
    /\ UNCHANGED ui

Next ==
    \E a \in AgentIds :
        \/ \E out \in LlmOutcomes(agents[a].agent, IntentCompletions) :
               GetIntentAndResponse(a, out)
        \/ \E out \in LlmOutcomes(agents[a].agent, SentimentCompletions) :
               AnalyzeSentiment(a, out)

Spec == Init /\ [][Next]_vars

(***************************************************************************)
(* The response parser on its own: one raw completion, parsed once         *)
(***************************************************************************)

InitParse ==
    /\ cache = EmptyCache
    /\ agents = [a \in AgentIds |-> NoAgent]
    /\ log = <<>>
    /\ threads = NoThreads
    /\ \E t \in RawTexts :
           last = [op |-> "raw", who |-> 0, llm |-> LlmText(t), res |-> Pending]
    /\ UiStart

\* BaseLLM._parse_intent_response(raw_response)
Parse ==
    /\ last.op = "raw"
    /\ last' = [last EXCEPT !.op = "_parse_intent_response",
                            !.res = _parse_intent_response(last.llm.v)]
    /\ UNCHANGED <<cache, agents, log, threads>>
    /\ UNCHANGED ui

NextParse == Parse

SpecParse == InitParse /\ [][NextParse]_vars

(***************************************************************************)
(* Properties of the Agent (specification Spec)                            *)
(***************************************************************************)

\* C1: the intent returned by Agent.get_intent_and_response is a member of
\* the vocabulary or the reserved fallback value unknown / error, whatever
\* the backend and whatever the generation call handed back; a token of the
\* model outside the vocabulary is never returned.
C1_IntentInVocabulary ==
    last.op = "get_intent_and_response" =>
        /\ ~last.res.raised
        /\ Len(last.res.val) = 2
        /\ last.res.val[1] \in
               {"account_balance", "transaction_history", "transfer_money",
                "card_issues", "loan_inquiry", "general_inquiry",
                "unknown", "error"}

\* the model answered with a token outside the vocabulary and the Agent
\* returned the default intent
C1_Witness ==
    /\ last.op = "get_intent_and_response"
    /\ last.llm = LlmText(JsonObject("ACCOUNT_LOCKED", "Please call support."))
    /\ last.res = Return(<<"general_inquiry", "Please call support.">>)

\* C2: when the generation call raises, Agent.get_intent_and_response
\* returns exactly the error pair and raises nothing, for every backend.
C2_BackendRaiseGivesErrorPair ==
    (last.op = "get_intent_and_response" /\ last.llm = LlmRaise) =>
        last.res =
            [raised |-> FALSE, exc |-> "",
             val |-> <<"error",
                       "I apologize, but I'm having trouble processing your request. Please try again.">>]

\* the hosted backend's call raised and the Agent answered
C2_Witness ==
    /\ last.op = "get_intent_and_response"
    /\ last.llm = LlmRaise
    /\ agents[last.who].agent.kind = "gpt"
    /\ last.res.val[1] = "error"

\* the answer of the model to a sentiment prompt, trimmed and case-folded, is
\* one of the three labels
IsLabel(out) ==
    /\ out.kind = "value"
    /\ out.v.t = "str"
    /\ lower(strip(out.v.s)) \in {"positive", "negative", "neutral"}

\* C9: Agent.analyze_sentiment returns one of POSITIVE, NEGATIVE, NEUTRAL
\* for every backend, every backend output and every Agent state.
C9_SentimentInVocabulary ==
    last.op = "analyze_sentiment" =>
        /\ ~last.res.raised
        /\ last.res.val \in {<<"POSITIVE">>, <<"NEGATIVE">>, <<"NEUTRAL">>}

\* the model answered with a lower-case label and it came back normalised
C9_Witness ==
    /\ last.op = "analyze_sentiment"
    /\ last.llm = LlmText(" Negative\n")
    /\ last.res = Return(<<"NEGATIVE">>)

\* C10: when classification fails (the call raises, the Agent holds no
\* backend, or the answer is not one of the three labels after trimming and
\* case-folding) analyze_sentiment returns NEUTRAL and raises nothing.
C10_FailedSentimentIsNeutral ==
    (/\ last.op = "analyze_sentiment"
     /\ \/ last.llm = LlmRaise
        \/ agents[last.who].agent = NoBackend
        \/ ~IsLabel(last.llm)) =>
        last.res = [raised |-> FALSE, exc |-> "", val |-> <<"NEUTRAL">>]

\* the generation call raised during analyze_sentiment
C10_Witness ==
    /\ last.op = "analyze_sentiment"
    /\ last.llm = LlmRaise
    /\ last.res.val = <<"NEUTRAL">>

\* an Agent without a backend was asked for a sentiment
C10_WitnessNoBackend ==
    /\ last.op = "analyze_sentiment"
    /\ agents[last.who].agent = NoBackend
    /\ last.res.val = <<"NEUTRAL">>

(***************************************************************************)
(* Properties of the response parser (specification SpecParse)             *)
(***************************************************************************)

\* the raw text the parser was run on
RawText == last.llm.v.s

Parsed == last.op = "_parse_intent_response"

ErrorPair ==
    <<"error",
      "I apologize, but I'm having trouble processing your request. Please try again.">>

\* the text has no line break once trimmed
SingleLine(t) == \A k \in 1..Len(strip(t)) : Ch(strip(t), k) # "\n"

\* the decoded JSON d is no value at all, or an object whose intent is a
\* string and whose response is missing or a blank string
BlankResponse(d) ==
    \/ ~d.ok
    \/ /\ d.v.t = "dict"
       /\ dict_get(d.v, "intent", JStr("unknown")).t = "str"
       /\ dict_get(d.v, "response", JStr("")).t = "str"
       /\ strip(dict_get(d.v, "response", JStr("")).s) = ""

\* the JSON step yields nothing: the text does not decode, or it decodes to an
\* object whose response is missing or blank
JsonStepFails(t) == BlankResponse(json_loads(t))

\* <<text, I, R>>: text is the JSON object {"intent": I, "response": R}
ObjectCases ==
    {<<JsonObject(I, R), I, R>> : I \in IntentTokens, R \in ResponseTexts}
    \cup {<<JsonObjectPretty(I, R), I, R>> : I \in IntentTokens, R \in ResponseTexts}

\* the cases whose object is the trimmed text t: the raw text is that object,
\* possibly between blanks
CasesOf(t) == {c \in ObjectCases : c[1] = t}

\* the token is outside the vocabulary once case-folded and trimmed
OutOfVocabulary(I) == strip(lower(I)) \notin VALID_INTENTS

C5_ExactPair ==
    Parsed =>
        \A c \in CasesOf(strip(RawText)) :
            (c[2] \in VALID_INTENTS /\ c[3] # "") =>
                last.res = Return(<<c[2], c[3]>>)

\* C5, amended: the JSON object for (I, R), I in the vocabulary and R not
\* empty once trimmed, is parsed to (I, R trimmed).
C5_TrimmedPair ==
    Parsed =>
        \A c \in CasesOf(strip(RawText)) :
            (c[2] \in VALID_INTENTS /\ strip(c[3]) # "") =>
                last.res = Return(<<c[2], strip(c[3])>>)

\* a response with blanks around it came back trimmed
C5_Witness ==
    /\ Parsed
    /\ RawText = JsonObject("card_issues", " ok ")
    /\ last.res = Return(<<"card_issues", "ok">>)

\* C6 as stated: the JSON object for (I, R), I outside the vocabulary, is
\* parsed to (general_inquiry or unknown, R) without raising.
C6_DefaultIntentSameResponse ==
    Parsed =>
        \A c \in CasesOf(strip(RawText)) :
            OutOfVocabulary(c[2]) =>
                /\ ~last.res.raised
                /\ last.res.val[1] \in {"general_inquiry", "unknown"}
                /\ last.res.val[2] = c[3]

\* C6, amended: the JSON object for (I, R), I outside the vocabulary and R
\* not empty once trimmed, is parsed to (general_inquiry, R trimmed) without
\* raising; and whatever R is, I is never returned as the intent.
C6_DefaultIntentTrimmedResponse ==
    Parsed =>
        \A c \in CasesOf(strip(RawText)) :
            OutOfVocabulary(c[2]) =>
                /\ strip(c[3]) # "" =>
                       last.res = Return(<<"general_inquiry", strip(c[3])>>)
                /\ ~last.res.raised =>
                       /\ last.res.val[1] # c[2]
                       /\ last.res.val[1] \in VALID_INTENTS

C6_Witness ==
    /\ Parsed
    /\ RawText = JsonObject("ACCOUNT_LOCKED", "Please call support.")
    /\ last.res = Return(<<"general_inquiry", "Please call support.">>)

\* <<text, I, R>>: text is the one-line JSON object for (I, R) with prose
\* before and/or after it on the same line
EmbeddedCases ==
    {<<w[1] \o JsonObject(I, R) \o w[2], I, R>> :
        w \in {<<"Sure! ", "">>, <<"", " Thanks.">>, <<"Sure! ", " Thanks.">>},
        I \in VALID_INTENTS, R \in ResponseTexts}

RawLines == split(RawText)

\* the number of the first line of the raw text that is not blank, 0 when
\* every line is blank
FirstLineNo ==
    IF \A k \in 1..Len(RawLines) : strip(RawLines[k]) = "" THEN 0
    ELSE CHOOSE k \in 1..Len(RawLines) :
             /\ strip(RawLines[k]) # ""
             /\ \A h \in 1..(k - 1) : strip(RawLines[h]) = ""

\* the vocabulary member a token stands for, the default otherwise
Validated(token) ==
    IF \E v \in VALID_INTENTS : lower(strip(token)) = v
    THEN lower(strip(token)) ELSE "general_inquiry"

\* C8: when the parser takes the line-based fallback and returns, the intent
\* is the validated first non-empty line and the response is everything
\* after that line, trimmed.
C8_LineFallback ==
    (Parsed /\ JsonStepFails(RawText) /\ ~last.res.raised) =>
        /\ FirstLineNo # 0
        /\ last.res.val[1] = Validated(RawLines[FirstLineNo])
        /\ last.res.val[2] =
               strip(join(SubSeq(RawLines, FirstLineNo + 1, Len(RawLines))))

\* blank lines first, then an intent line, then two lines of response
C8_Witness ==
    /\ Parsed
    /\ RawText = "  \n Card_Issues \nYour account is temporarily locked."
    /\ last.res = Return(<<"card_issues", "Your account is temporarily locked.">>)

(***************************************************************************)
(* The lifetime of Agents in one thread: construction, queries, speak,     *)
(* clear_cache                                                             *)
(***************************************************************************)

\* what one generation call hands back in the runs about the lifetime of
\* Agents: one of outs, or nothing when there is no backend to call
LifeOutcomes(backend, outs) ==
    IF backend = NoBackend THEN {LlmNotCalled} ELSE outs

\* the log after one more Agent.clear_cache: the first clear of a run is
\* logged, which tells the runs without any clear from the others
LogCleared(lg) ==
    IF \E i \in 1..Len(lg) : lg[i] = Cleared THEN lg ELSE Append(lg, Cleared)

\* the process starts: nothing is cached and no Agent exists
InitLife ==
    /\ cache = EmptyCache
    /\ agents = [a \in AgentIds |-> NoAgent]
    /\ last = [op |-> "start", who |-> 0, llm |-> LlmNotCalled, res |-> Pending]
    /\ log = <<>>
    /\ threads = NoThreads
    /\ UiStart

\* the Agent object after __init__ ran to r: none when __init__ raised
AgentBuilt(r) ==
    IF r.raised THEN NoAgent
    ELSE [built |-> TRUE, model |-> r.model, agent |-> r.agent]

\* what Agent(model) evaluates to: the Agent, or the exception of line 106
InitOutcome(r) ==
    IF r.raised THEN Raise("Exception") ELSE Return(<<r.model>>)

\* the Agents after a construction that also hands its backend to every
\* Agent that has none
Repaired(ags, backend) ==
    [b \in AgentIds |->
        IF ags[b].built /\ ags[b].agent = NoBackend
        THEN [ags[b] EXCEPT !.agent = backend]
        ELSE ags[b]]

\* a construction that repairs the Agents left without a backend
Construct_repairing(a, model, ok) ==
    /\ threads[a].pc = "idle"
    /\ \A b \in 1..(a - 1) : threads[b].pc # "idle"
    /\ ~agents[a].built
    /\ cache' = _initialize_model(model, cache, ok, a).cache
    /\ agents' = Repaired([agents EXCEPT
                              ![a] = AgentBuilt(_initialize_model(model, cache, ok, a))],
                          _initialize_model(model, cache, ok, a).agent)
    /\ last' = [op |-> "__init__", who |-> a, llm |-> LlmNotCalled,
                res |-> InitOutcome(_initialize_model(model, cache, ok, a))]
    /\ log' = log \o ConstructorCalls(model, cache, ok, a)
    /\ threads' = [threads EXCEPT ![a] = [pc |-> "done", model |-> model, k |-> 0]]
    /\ UNCHANGED ui

\* Agent(model) (agent.py:52-56), the a-th construction of the run; ok is the
\* set of backend classes whose constructor succeeds at this moment, among
\* the two that _initialize_model can call
Construct(a, model, ok) ==
    /\ threads[a].pc = "idle"
    /\ \A b \in 1..(a - 1) : threads[b].pc # "idle"
    /\ ~agents[a].built
    /\ cache' = _initialize_model(model, cache, ok, a).cache
    /\ agents' = [agents EXCEPT
                     ![a] = AgentBuilt(_initialize_model(model, cache, ok, a))]
    /\ last' = [op |-> "__init__", who |-> a, llm |-> LlmNotCalled,
                res |-> InitOutcome(_initialize_model(model, cache, ok, a))]
    /\ log' = log \o ConstructorCalls(model, cache, ok, a)
    /\ threads' = [threads EXCEPT ![a] = [pc |-> "done", model |-> model, k |-> 0]]
    /\ UNCHANGED ui

\* Agent.speak(text) (agent.py:109-141): True when the audio was played,
\* False when anything raised; no field of the Agent is read or written
Speak(a, played) ==
    /\ agents[a].built
    /\ last' = [op |-> "speak", who |-> a, llm |-> LlmNotCalled,
                res |-> Return(<<played>>)]
    /\ UNCHANGED <<cache, agents, log, threads>>
    /\ UNCHANGED ui

\* a clear_cache that also takes the backends away from the Agents
ClearCache_dropping ==
    /\ cache' = EmptyCache
    /\ agents' = [b \in AgentIds |-> [agents[b] EXCEPT !.agent = NoBackend]]
    /\ last' = [op |-> "clear_cache", who |-> 0, llm |-> LlmNotCalled,
                res |-> Return(<<>>)]
    /\ log' = LogCleared(log)
    /\ UNCHANGED threads
    /\ UNCHANGED ui

\* Agent.clear_cache() (agent.py:170-175)
ClearCache ==
    /\ cache' = EmptyCache
    /\ last' = [op |-> "clear_cache", who |-> 0, llm |-> LlmNotCalled,
                res |-> Return(<<>>)]
    /\ log' = LogCleared(log)
    /\ UNCHANGED <<agents, threads>>
    /\ UNCHANGED ui

NextLife ==
    \/ \E a \in AgentIds, model \in Identities :
           \E ok \in SUBSET {model, "mistral"} : Construct(a, model, ok)
    \/ \E a \in AgentIds :
           \E out \in LifeOutcomes(agents[a].agent,
                                    {LlmRaise, LlmText("card_issues\nOk.")}) :
               GetIntentAndResponse(a, out)
    \/ \E a \in AgentIds :
           \E out \in LifeOutcomes(agents[a].agent, {LlmText("NEGATIVE")}) :
               AnalyzeSentiment(a, out)
    \/ \E a \in AgentIds, played \in BOOLEAN : Speak(a, played)
    \/ ClearCache

SpecLife == InitLife /\ [][NextLife]_vars

(***************************************************************************)
(* The response parser called again and again, on any backend object       *)
(***************************************************************************)

\* number of parser calls in a run
MaxParses == 3

\* the raw completions the repeated calls are made on
ReparseTexts ==
    {JsonObject("card_issues", " ok "),
     JsonObject("ACCOUNT_LOCKED", "Please call support."),
     "{\"intent\": \"card_issues\"}",
     "42",
     "not json at all",
     " Card_Issues \nYour account is temporarily locked."}

InitReparse ==
    /\ cache = EmptyCache
    /\ agents = [a \in AgentIds |-> NoAgent]
    /\ last = [op |-> "start", who |-> 0, llm |-> LlmNotCalled, res |-> Pending]
    /\ log = <<>>
    /\ threads = NoThreads
    /\ UiStart

\* the history after the call on text returned or raised res
ParseLogged(text, by, res) ==
    /\ last' = [op |-> "_parse_intent_response", who |-> by,
                llm |-> LlmText(text), res |-> res]
    /\ log' = Append(log, ParseCall(text, by, res))
    /\ UNCHANGED <<cache, agents, threads>>
    /\ UNCHANGED ui

\* self._parse_intent_response(text) on the backend object by
Reparse(text, by) ==
    /\ Len(log) < MaxParses
    /\ ParseLogged(text, by, _parse_intent_response(JStr(text)))

NextReparse == \E text \in ReparseTexts, by \in AgentIds : Reparse(text, by)

SpecReparse == InitReparse /\ [][NextReparse]_vars

Constructs(a) == threads[a].pc = "idle" /\ threads'[a].pc = "done"

\* the constructor calls this step made, in order
NewCalls == SubSeq(log', Len(log) + 1, Len(log'))

\* the constructor of the requested class was called in this step and raised
RequestedFailed(a) ==
    /\ Len(NewCalls) >= 1
    /\ NewCalls[1] = [ev |-> "ctor", kind |-> threads'[a].model, ok |-> FALSE, by |-> a]

\* some identity is cached
AnyCached == \E k \in {"mistral", "gpt", "tinyllama"} : cache[k].kind # "none"

\* the cached identity that comes first in the declaration order of LLM
FirstCachedIdentity ==
    IF cache["mistral"].kind # "none" THEN "mistral"
    ELSE IF cache["gpt"].kind # "none" THEN "gpt"
    ELSE "tinyllama"

\* C12 as stated: an Agent built for an identity whose construction failed
\* reports the default identity mistral, whatever else is cached.
C12_FallsBackToDefault ==
    \A a \in AgentIds :
        (/\ agents[a].built
         /\ \E i \in 1..Len(log) :
                log[i] = [ev |-> "ctor", kind |-> threads[a].model,
                          ok |-> FALSE, by |-> a]) =>
            agents[a].model = "mistral"

\* C12, amended: when the constructor of the requested identity raises, the
\* Agent takes the first cached identity in declaration order (mistral, gpt,
\* tinyllama) together with its cached object, and no further constructor is
\* called; only when nothing is cached does it report mistral, holding a
\* newly constructed Mistral if the request was for another identity and no
\* backend if the request was for mistral itself.
C12_FallsBackToCachedThenDefault ==
    [][\A a \in AgentIds :
           (Constructs(a) /\ RequestedFailed(a) /\ agents'[a].built) =>
               IF AnyCached
               THEN /\ agents'[a].model = FirstCachedIdentity
                    /\ agents'[a].agent = cache[FirstCachedIdentity]
                    /\ Len(NewCalls) = 1
               ELSE /\ agents'[a].model = "mistral"
                    /\ agents'[a].agent =
                           IF threads'[a].model = "mistral"
                           THEN [kind |-> "none", id |-> 0]
                           ELSE [kind |-> "mistral", id |-> a]]_vars

\* only gpt was cached when the construction of tinyllama failed, and the
\* Agent reports gpt and holds the cached object
C12_Witness ==
    /\ agents[1].built /\ agents[1].model = "gpt"
    /\ agents[2].built /\ threads[2].model = "tinyllama"
    /\ agents[2].model = "gpt"
    /\ agents[2].agent = agents[1].agent
    /\ agents[2].agent.kind = "gpt"
    /\ log = <<[ev |-> "ctor", kind |-> "gpt", ok |-> TRUE, by |-> 1],
               [ev |-> "ctor", kind |-> "tinyllama", ok |-> FALSE, by |-> 2]>>

\* the constructor calls that Agent a made during its construction, in order
CallsBy(a) ==
    LET ByA(e) == e.ev = "ctor" /\ e.by = a IN SelectSeq(log, ByA)

\* C13: one construction of an Agent calls at most two backend constructors:
\* the requested class, and after its failure at most one more, which is
\* Mistral; when that one fails too, nothing else is tried.
C13_AtMostOneFallback ==
    \A a \in AgentIds :
        /\ Len(CallsBy(a)) <= 2
        /\ Len(CallsBy(a)) >= 1 => CallsBy(a)[1].kind = threads[a].model
        /\ Len(CallsBy(a)) = 2 =>
               /\ ~CallsBy(a)[1].ok
               /\ CallsBy(a)[1].kind # "mistral"
               /\ CallsBy(a)[2].kind = "mistral"

\* the requested class and then Mistral both failed to construct: two calls,
\* no third, and no Agent came out of the construction
C13_Witness ==
    /\ threads[1].pc = "done"
    /\ ~agents[1].built
    /\ log = <<[ev |-> "ctor", kind |-> "tinyllama", ok |-> FALSE, by |-> 1],
               [ev |-> "ctor", kind |-> "mistral", ok |-> FALSE, by |-> 1]>>
    /\ last.op = "__init__" /\ last.res.raised

\* the construction of Agent a is over and left it without a backend: either
\* the Agent exists without self.agent, or __init__ raised and no Agent exists
Failed(a) == threads[a].pc = "done" /\ agents[a].agent.kind = "none"

\* the step is a query to Agent a
Queries(a) ==
    last'.who = a /\ last'.op \in {"get_intent_and_response", "analyze_sentiment"}

\* C14: an Agent whose construction left it without a backend never gets
\* one: every step (a query, speak, clear_cache, the construction of another
\* Agent) leaves it as it is, and a query to it is answered without any
\* generation call, by the error pair or by NEUTRAL.
C14_FailedIsTerminal ==
    [][\A a \in AgentIds :
           Failed(a) =>
               /\ agents'[a] = agents[a]
               /\ threads'[a] = threads[a]
               /\ Queries(a) =>
                      /\ last'.llm.kind = "notcalled"
                      /\ ~last'.res.raised
                      /\ last'.res.val \in
                             {<<"error",
                                "I apologize, but I'm having trouble processing your request. Please try again.">>,
                              <<"NEUTRAL">>}]_vars

\* Mistral was requested first and failed with nothing cached; later another
\* Agent constructed Mistral and cached it; the first Agent, asked for an
\* intent after that, still has no backend and answers with the error pair
C14_Witness ==
    /\ agents[1].built /\ agents[1].agent.kind = "none"
    /\ agents[2].built /\ agents[2].agent.kind = "mistral"
    /\ cache["mistral"] = agents[2].agent
    /\ last.op = "get_intent_and_response" /\ last.who = 1
    /\ last.res.val[1] = "error"

\* C15: when the requested identity is cached, or its constructor succeeds,
\* the Agent reports the requested identity and holds a backend of that
\* identity (the cached object on a hit, and then no constructor is called);
\* no constructor of another class is called.
C15_RequestedIdentityBecomesReady ==
    [][\A a \in AgentIds :
           (/\ Constructs(a)
            /\ \/ cache[threads'[a].model].kind # "none"
               \/ /\ Len(NewCalls) >= 1
                  /\ NewCalls[1] = [ev |-> "ctor", kind |-> threads'[a].model,
                                    ok |-> TRUE, by |-> a]) =>
               /\ agents'[a].built
               /\ agents'[a].model = threads'[a].model
               /\ agents'[a].agent.kind = threads'[a].model
               /\ Len(NewCalls) <= 1
               /\ cache[threads'[a].model].kind # "none" =>
                      /\ agents'[a].agent = cache[threads'[a].model]
                      /\ NewCalls = <<>>
               /\ cache[threads'[a].model].kind = "none" =>
                      /\ agents'[a].agent = [kind |-> threads'[a].model, id |-> a]
                      /\ cache'[threads'[a].model] = agents'[a].agent]_vars

\* gpt was requested while mistral was cached; the constructor of GPT
\* succeeded and the Agent reports gpt and holds the new object
C15_Witness ==
    /\ agents[1].built /\ agents[1].model = "mistral"
    /\ cache["mistral"].kind = "mistral"
    /\ last.op = "__init__" /\ last.who = 2
    /\ agents[2].built /\ threads[2].model = "gpt" /\ agents[2].model = "gpt"
    /\ agents[2].agent = [kind |-> "gpt", id |-> 2]
    /\ cache["gpt"] = agents[2].agent

\* C16: once the construction of an Agent has finished, no step changes the
\* identity it reports or the backend object it holds.
C16_BoundForLifetime ==
    [][\A a \in AgentIds :
           (threads[a].pc = "done" /\ agents[a].built) =>
               /\ agents'[a].built
               /\ agents'[a].model = agents[a].model
               /\ agents'[a].agent = agents[a].agent]_vars

\* the first Agent holds its Mistral, while after a clear_cache a second
\* Agent constructed and cached another Mistral, and the first Agent was
\* queried after that
C16_Witness ==
    /\ agents[1].built /\ agents[1].agent = [kind |-> "mistral", id |-> 1]
    /\ agents[2].built /\ agents[2].agent = [kind |-> "mistral", id |-> 2]
    /\ cache["mistral"] = agents[2].agent
    /\ last.op = "analyze_sentiment" /\ last.who = 1

\* entry i of the log is a constructor call that returned a backend
BuiltAt(i) == log[i].ev = "ctor" /\ log[i].ok

\* in a run without clear_cache: after the successful construction logged at
\* i, no constructor of that class is called again, and every Agent built for
\* that identity from then on holds the object constructed at i
ReusedSince(i) ==
    /\ \A j \in (i + 1)..Len(log) : log[j].kind # log[i].kind
    /\ \A a \in AgentIds :
           (/\ threads[a].pc = "done"
            /\ threads[a].model = log[i].kind
            /\ a >= log[i].by) =>
               /\ agents[a].built
               /\ agents[a].model = log[i].kind
               /\ agents[a].agent = [kind |-> log[i].kind, id |-> log[i].by]

\* a query leaves the cache and the constructor calls as they are
QueryConstructsNothing ==
    last'.op \in {"get_intent_and_response", "analyze_sentiment"} =>
        /\ log' = log
        /\ cache' = cache
        /\ agents' = agents

\* C19: get_intent_and_response and analyze_sentiment call no constructor;
\* and in a run without clear_cache, once a backend of an identity has been
\* constructed, every Agent built for that identity afterwards holds that
\* very object and the constructor of that class is not called again.
C19_BackendIsReused ==
    /\ [][QueryConstructsNothing]_vars
    /\ []((\A i \in 1..Len(log) : log[i].ev = "ctor") =>
              \A i \in 1..Len(log) : BuiltAt(i) => ReusedSince(i))

\* GPT was constructed once, for the first Agent; the second Agent, built for
\* gpt as well, holds the same object, and a query was answered since
C19_Witness ==
    /\ log = <<[ev |-> "ctor", kind |-> "gpt", ok |-> TRUE, by |-> 1]>>
    /\ threads[2].pc = "done" /\ threads[2].model = "gpt"
    /\ agents[2].built
    /\ agents[2].agent = agents[1].agent
    /\ agents[2].agent = [kind |-> "gpt", id |-> 1]
    /\ last.op = "get_intent_and_response" /\ last.who = 2
    /\ last.res = Return(<<"card_issues", "Ok.">>)

(***************************************************************************)
(* Agents built and queried from several threads, statement by statement.  *)
(* Thread t builds Agent t (one Agent per session, main.py:1135) and then  *)
(* queries it; the threads share _model_cache and the backends in it.      *)
(* threads[t].k is the index of the scan of agent.py:94 during __init__,   *)
(* and the number of generation requests of the current query afterwards.  *)
(***************************************************************************)

\* the answers to an intent prompt in the runs with threads: a well-formed
\* one and one the parser cannot interpret
ThreadCompletions == {"card_issues\nOk.", "not json at all"}

InitThreads ==
    /\ cache = EmptyCache
    /\ agents = [a \in AgentIds |-> NoAgent]
    /\ last = [op |-> "start", who |-> 0, llm |-> LlmNotCalled, res |-> Pending]
    /\ log = <<>>
    /\ threads = NoThreads
    /\ UiStart

\* thread t moves to pc
Goto(t, pc) == threads' = [threads EXCEPT ![t].pc = pc]

\* Agent.__init__ returns in thread t: the Agent exists from now on
InitReturns(t, model, backend) ==
    /\ agents' = [agents EXCEPT
                     ![t] = [built |-> TRUE, model |-> model, agent |-> backend]]
    /\ threads' = [threads EXCEPT ![t].pc = "done", ![t].k = 0]
    /\ last' = [op |-> "__init__", who |-> t, llm |-> LlmNotCalled,
                res |-> Return(<<model>>)]

\* agent.py:54: thread t enters Agent(model); self.model = model
EnterInit(t, model) ==
    /\ threads[t].pc = "idle"
    /\ \A b \in 1..(t - 1) : threads[b].pc # "idle"
    /\ threads' = [threads EXCEPT ![t] = [pc |-> "lookup", model |-> model, k |-> 0]]
    /\ agents' = [agents EXCEPT ![t].model = model]
    /\ UNCHANGED <<cache, last, log>>
    /\ UNCHANGED ui

\* agent.py:71-75: the lookup of the requested identity; on a hit
\* self.agent is the cached object and _initialize_model returns
CheckCache(t) ==
    /\ threads[t].pc = "lookup"
    /\ IF cache[agents[t].model] # NoBackend
       THEN InitReturns(t, agents[t].model, cache[agents[t].model])
       ELSE Goto(t, "construct") /\ UNCHANGED <<agents, last>>
    /\ UNCHANGED <<cache, log>>
    /\ UNCHANGED ui

\* agent.py:78-83: the constructor of the requested class returns an object
\* (ok) or raises
CallConstructor(t, ok) ==
    /\ threads[t].pc = "construct"
    /\ log' = Append(log, Called(agents[t].model, ok, t))
    /\ IF ok
       THEN /\ agents' = [agents EXCEPT ![t].agent = Backend(agents[t].model, t)]
            /\ Goto(t, "store")
       ELSE /\ threads' = [threads EXCEPT ![t].pc = "scan", ![t].k = 1]
            /\ UNCHANGED agents
    /\ UNCHANGED <<cache, last>>
    /\ UNCHANGED ui

\* agent.py:88 and agent.py:107: _cache_model(self.model.value, self.agent),
\* after which _initialize_model returns
CacheModel(t) ==
    /\ threads[t].pc = "store"
    /\ cache' = [cache EXCEPT ![agents[t].model] = agents[t].agent]
    /\ InitReturns(t, agents[t].model, agents[t].agent)
    /\ UNCHANGED log
    /\ UNCHANGED ui

\* agent.py:94-100: one round of the loop over LLM.get_values()
ScanCache(t) ==
    /\ threads[t].pc = "scan"
    /\ IF cache[LLMValues[threads[t].k]] # NoBackend
       THEN InitReturns(t, LLMValues[threads[t].k], cache[LLMValues[threads[t].k]])
       ELSE /\ threads' = [threads EXCEPT
                              ![t].pc = IF threads[t].k = Len(LLMValues)
                                        THEN "fallback" ELSE "scan",
                              ![t].k = threads[t].k + 1]
            /\ UNCHANGED <<agents, last>>
    /\ UNCHANGED <<cache, log>>
    /\ UNCHANGED ui

\* agent.py:103-106: nothing was cached.  A request for Mistral ends here
\* without self.agent; otherwise self.model = MISTRAL and Mistral() is
\* called, which returns an object (ok) or raises out of __init__
FallBackToMistral(t, ok) ==
    /\ threads[t].pc = "fallback"
    /\ IF agents[t].model = "mistral"
       THEN /\ InitReturns(t, "mistral", NoBackend)
            /\ UNCHANGED log
       ELSE /\ log' = Append(log, Called("mistral", ok, t))
            /\ IF ok
               THEN /\ agents' = [agents EXCEPT ![t].model = "mistral",
                                               ![t].agent = Backend("mistral", t)]
                    /\ Goto(t, "store")
                    /\ UNCHANGED last
               ELSE /\ agents' = [agents EXCEPT ![t] = NoAgent]
                    /\ threads' = [threads EXCEPT ![t].pc = "done", ![t].k = 0]
                    /\ last' = [op |-> "__init__", who |-> t, llm |-> LlmNotCalled,
                                res |-> Raise("Exception")]
    /\ UNCHANGED cache
    /\ UNCHANGED ui

\* the Agent of thread t exists and the thread is between two calls
Ready(t) == threads[t].pc = "done" /\ agents[t].built

\* thread t is inside a generation call on the backend object it holds
Generating(t) == threads[t].pc \in {"generating", "classifying"}

\* agent.py:162 and mistral.py:51: thread t calls get_intent_and_response
\* and enters the generation call of its backend; without self.agent the
\* attribute access raises and the except clause of agent.py:163 answers
BeginGetIntentAndResponse(t) ==
    /\ Ready(t)
    /\ IF agents[t].agent = NoBackend
       THEN /\ last' = [op |-> "get_intent_and_response", who |-> t,
                        llm |-> LlmNotCalled,
                        res |-> AgentGetIntentAndResponse(NoBackend, LlmNotCalled)]
            /\ threads' = [threads EXCEPT ![t].k = 0]
       ELSE /\ threads' = [threads EXCEPT ![t].pc = "generating", ![t].k = 1]
            /\ UNCHANGED last
    /\ UNCHANGED <<cache, agents, log>>
    /\ UNCHANGED ui

\* an answering step that calls the model again when the call raised or the
\* answer could not be parsed
EndGetIntentAndResponse_retry(t, out) ==
    /\ threads[t].pc = "generating"
    /\ last' = [op |-> "get_intent_and_response", who |-> t, llm |-> out,
                res |-> AgentGetIntentAndResponse(agents[t].agent, out)]
    /\ IF AgentGetIntentAndResponse(agents[t].agent, out).val[1] = "error"
          /\ threads[t].k < 3
       THEN threads' = [threads EXCEPT ![t].k = threads[t].k + 1]
       ELSE Goto(t, "done")
    /\ UNCHANGED <<cache, agents, log>>
    /\ UNCHANGED ui

\* mistral.py:51-65 and agent.py:162-165: the generation call of thread t
\* hands back out, which is parsed, and get_intent_and_response returns
EndGetIntentAndResponse(t, out) ==
    /\ threads[t].pc = "generating"
    /\ last' = [op |-> "get_intent_and_response", who |-> t, llm |-> out,
                res |-> AgentGetIntentAndResponse(agents[t].agent, out)]
    /\ Goto(t, "done")
    /\ UNCHANGED <<cache, agents, log>>
    /\ UNCHANGED ui

\* agent.py:146 and mistral.py:78: thread t calls analyze_sentiment and
\* enters the generation call of its backend
BeginAnalyzeSentiment(t) ==
    /\ Ready(t)
    /\ IF agents[t].agent = NoBackend
       THEN /\ last' = [op |-> "analyze_sentiment", who |-> t,
                        llm |-> LlmNotCalled,
                        res |-> AgentAnalyzeSentiment(NoBackend, LlmNotCalled)]
            /\ threads' = [threads EXCEPT ![t].k = 0]
       ELSE /\ threads' = [threads EXCEPT ![t].pc = "classifying", ![t].k = 1]
            /\ UNCHANGED last
    /\ UNCHANGED <<cache, agents, log>>
    /\ UNCHANGED ui

\* mistral.py:78-92 and agent.py:146-149: the generation call hands back out
\* and analyze_sentiment returns
EndAnalyzeSentiment(t, out) ==
    /\ threads[t].pc = "classifying"
    /\ last' = [op |-> "analyze_sentiment", who |-> t, llm |-> out,
                res |-> AgentAnalyzeSentiment(agents[t].agent, out)]
    /\ Goto(t, "done")
    /\ UNCHANGED <<cache, agents, log>>
    /\ UNCHANGED ui

\* one statement of thread t
ThreadStep(t) ==
    \/ \E model \in Identities : EnterInit(t, model)
    \/ CheckCache(t)
    \/ \E ok \in BOOLEAN : CallConstructor(t, ok)
    \/ CacheModel(t)
    \/ ScanCache(t)
    \/ \E ok \in BOOLEAN : FallBackToMistral(t, ok)
    \/ BeginGetIntentAndResponse(t)
    \/ \E out \in {LlmRaise, LlmObject} \cup {LlmText(c) : c \in ThreadCompletions} :
           EndGetIntentAndResponse(t, out)
    \/ BeginAnalyzeSentiment(t)
    \/ \E out \in {LlmRaise, LlmText("NEGATIVE")} : EndAnalyzeSentiment(t, out)

\* the threads run interleaved, a statement at a time
NextThreads == \E t \in AgentIds : ThreadStep(t)

SpecThreads == InitThreads /\ [][NextThreads]_vars

\* a process with a single thread, which builds one Agent and queries it
NextOneThread == ThreadStep(1)

SpecOneThread == InitThreads /\ [][NextOneThread]_vars

(***************************************************************************)
(* Properties of the threads (SpecThreads, SpecOneThread)                  *)
(***************************************************************************)

\* the backend objects of identity k in use: held by an Agent whose
\* construction has finished, or cached
InstancesOf(k) ==
    {agents[t].agent :
        t \in {u \in AgentIds : agents[u].built /\ agents[u].agent.kind = k}}
    \cup {cache[i] : i \in {j \in {"mistral", "gpt", "tinyllama"} : cache[j].kind = k}}

\* C17 as stated: at most one backend object of an identity exists at any
\* time, so that two threads that build an Agent for the same uncached
\* identity never both construct a backend and end up holding one object.
C17_OneInstancePerIdentity ==
    \A k \in {"mistral", "gpt", "tinyllama"} : Cardinality(InstancesOf(k)) <= 1

\* C18 as stated: at most one generation call is executing on a backend
\* object at any time.
C18_GenerationSerialized ==
    \A t, u \in AgentIds :
        (/\ t # u
         /\ threads[t].pc \in {"generating", "classifying"}
         /\ threads[u].pc \in {"generating", "classifying"}) =>
            agents[t].agent # agents[u].agent

\* C20: a call of Agent.get_intent_and_response makes one generation request
\* at most: whatever the request hands back (an answer, an exception, text
\* the parser cannot interpret, a value that is not text), the next statement
\* of the thread returns from the call with a pair, and the count of requests
\* of a call never exceeds one.
C20_NoAutomaticRetry ==
    /\ [][\A t \in AgentIds :
              (threads[t].pc = "generating" /\ threads'[t] # threads[t]) =>
                  /\ threads'[t].pc = "done"
                  /\ threads'[t].k = 1
                  /\ last'.op = "get_intent_and_response"
                  /\ last'.who = t
                  /\ ~last'.res.raised
                  /\ Len(last'.res.val) = 2]_vars
    /\ [](\A t \in AgentIds :
              threads[t].pc \in {"generating", "classifying", "done"} =>
                  threads[t].k <= 1)

\* the model answered with text the parser cannot interpret; the call
\* returned the error pair after its one request
C20_Witness ==
    /\ threads[1].pc = "done" /\ threads[1].k = 1
    /\ last.op = "get_intent_and_response" /\ last.who = 1
    /\ last.llm = [kind |-> "value", v |-> [t |-> "str", s |-> "not json at all", m |-> <<>>]]
    /\ last.res.val[1] = "error"

\* the generation request raised; the call returned the error pair after its
\* one request
C20_WitnessRaise ==
    /\ threads[1].pc = "done" /\ threads[1].k = 1
    /\ last.op = "get_intent_and_response" /\ last.who = 1
    /\ last.llm.kind = "raise"
    /\ last.res.val[1] = "error"

(***************************************************************************)
(* LLM.from_name on any name string                                        *)
(***************************************************************************)

\* a lookup that compares the name as it is spelled
from_name_exact(name) ==
    IF \E k \in 1..Len(LLMValues) : LLMValues[k] = name THEN name ELSE "mistral"

\* <<k, v>>: v is the lower-cased value of the k-th member of LLM
FoldedValues == {<<k, lower(LLMValues[k])>> : k \in 1..Len(LLMValues)}

\* agent.py:29-33 for name.lower() = folded: the first member, in declaration
\* order, whose lower-cased value is folded; MISTRAL when next() raises
\* StopIteration
FirstMember(folded) ==
    IF \E k \in 1..Len(LLMValues) : <<k, folded>> \in FoldedValues
    THEN LLMValues[CHOOSE k \in 1..Len(LLMValues) :
                       /\ <<k, folded>> \in FoldedValues
                       /\ \A h \in 1..(k - 1) : <<h, folded>> \notin FoldedValues]
    ELSE "mistral"

\* LLM.from_name(name) (agent.py:26-33) for a str
from_name(name) == FirstMember(lower(name))

\* number of leading letters of an identity that are written in either case
MaxFlips == 3

\* word with the letters at the positions of caps in upper case
RECURSIVE Capitalized(_, _, _)
Capitalized(word, caps, i) ==
    IF i > Len(word) THEN ""
    ELSE (IF i \in caps THEN upper(Ch(word, i)) ELSE Ch(word, i))
             \o Capitalized(word, caps, i + 1)

\* the spellings of the identities: any of the leading letters in upper
\* case, or all of them
Spellings ==
    {Capitalized(LLMValues[k], caps, 1) :
         k \in 1..Len(LLMValues), caps \in SUBSET (1..MaxFlips)}
    \cup {upper(LLMValues[k]) : k \in 1..Len(LLMValues)}

\* names that are no identity: the display names of the model selector
\* (main.py:1256-1260), near misses, blank names
Unrecognized ==
    {"", " ", "Mistral-7B", "ChatGPT-3.5", "TinyLlama-1.1B", "mistral7b",
     "gpt4", "gpt-3.5-turbo", "tiny llama", "llama", "openai", "LLM.GPT",
     "none", "mistra", "pt"}

\* the name strings from_name is called on
Names ==
    Spellings
    \cup {pad \o s : pad \in {" ", "\n"}, s \in Spellings}
    \cup {s \o pad : pad \in {" ", "\n"}, s \in Spellings}
    \cup Unrecognized

InitNames ==
    /\ cache = EmptyCache
    /\ agents = [a \in AgentIds |-> NoAgent]
    /\ log = <<>>
    /\ threads = NoThreads
    /\ UiStart
    /\ \E name \in Names :
           last = [op |-> "name", who |-> 0, llm |-> LlmText(name), res |-> Pending]

\* LLM.from_name(name)
FromName ==
    /\ last.op = "name"
    /\ last' = [last EXCEPT !.op = "from_name",
                            !.res = Return(<<from_name(last.llm.v.s)>>)]
    /\ UNCHANGED <<cache, agents, log, threads>>
    /\ UNCHANGED ui

NextNames == FromName

SpecNames == InitNames /\ [][NextNames]_vars

\* C21: LLM.from_name never fails on a name string; it returns the identity
\* whose value is the name up to the case of its letters, and mistral for
\* every name that is no identity's value in any case (an unknown name, a
\* name with blanks around it, the empty name).
C21_FromNameIsTotal ==
    last.op = "from_name" =>
        /\ ~last.res.raised
        /\ last.res.val[1] \in Identities
        /\ \A k \in Identities :
               upper(k) = upper(last.llm.v.s) => last.res.val[1] = k
        /\ (\A k \in Identities : upper(k) # upper(last.llm.v.s)) =>
               last.res.val[1] = "mistral"

\* a name in mixed case gave its identity
C21_Witness ==
    /\ last.op = "from_name"
    /\ last.llm.v.s = "TInyllama"
    /\ last.res.val = <<"tinyllama">>

\* a name with a blank before it is not recognized and gave the default
C21_WitnessDefault ==
    /\ last.op = "from_name"
    /\ last.llm.v.s = " GPT"
    /\ last.res.val = <<"mistral">>

(***************************************************************************)
(* The hosted backend and its API credential, gpt.py                       *)
(***************************************************************************)

\* what os.getenv("OPENAI_API_KEY") gives after load_dotenv (gpt.py:14-16):
\* None when the variable is not set, or its text
ApiKeys == {JLit("null"), JStr(""), JStr("sk-test")}

\* `not api_key` (gpt.py:17)
NoApiKey(api_key) == api_key.t # "str" \/ api_key.s = ""

\* a constructor that looks at the credential only when a request is made
GPT_init_lazy(api_key, client) == Return(<<api_key>>)

\* GPT.__init__ (gpt.py:12-23): raises ValueError when there is no key;
\* client tells whether OpenAI(api_key=api_key) returned.  Every exception
\* is logged and raised again.
GPT_init(api_key, client) ==
    IF NoApiKey(api_key) THEN Raise("ValueError")
    ELSE IF ~client THEN Raise("OpenAIError")
    ELSE Return(<<api_key>>)

\* the backend classes whose constructor succeeds: the local ones whose
\* model file loads, and GPT when GPT.__init__ returns
Constructible(api_key, client, files) ==
    (files \ {"gpt"})
    \cup (IF GPT_init(api_key, client).raised THEN {} ELSE {"gpt"})

\* Agent(model) (agent.py:52-56) in an environment: api_key is the credential
\* of the process at this moment, files the local classes whose model loads
ConstructWithKey(a, model, api_key, client, files) ==
    /\ threads[a].pc = "idle"
    /\ \A b \in 1..(a - 1) : threads[b].pc # "idle"
    /\ ~agents[a].built
    /\ cache' = _initialize_model(model, cache,
                                  Constructible(api_key, client, files), a).cache
    /\ agents' = [agents EXCEPT
                     ![a] = AgentBuilt(_initialize_model(model, cache,
                                Constructible(api_key, client, files), a))]
    /\ last' = [op |-> "__init__", who |-> a, llm |-> [kind |-> "env", v |-> api_key],
                res |-> InitOutcome(_initialize_model(model, cache,
                            Constructible(api_key, client, files), a))]
    /\ log' = log \o ConstructorCalls(model, cache,
                                      Constructible(api_key, client, files), a)
    /\ threads' = [threads EXCEPT ![a] = [pc |-> "done", model |-> model, k |-> 0]]
    /\ UNCHANGED ui

NextHosted ==
    \/ \E a \in AgentIds, model \in Identities :
           \E api_key \in ApiKeys, client \in BOOLEAN :
               \E files \in SUBSET ({model, "mistral"} \ {"gpt"}) :
                   ConstructWithKey(a, model, api_key, client, files)
    \/ \E a \in AgentIds :
           \E out \in LifeOutcomes(agents[a].agent,
                                    {LlmRaise, LlmText("card_issues\nOk.")}) :
               GetIntentAndResponse(a, out)
    \/ ClearCache

SpecHosted == InitLife /\ [][NextHosted]_vars

\* the hosted backend objects that exist: cached, or held by an Agent
HostedIn(c, ags) ==
    {c[k] : k \in {i \in Identities : c[i].kind = "gpt"}}
    \cup {ags[a].agent : a \in {b \in AgentIds : ags[b].agent.kind = "gpt"}}

\* C22: a hosted backend object comes into existence only in a construction
\* that ran with a credential: when the key is absent (unset or empty) the
\* construction of the hosted backend fails, no hosted object is cached or
\* handed to an Agent by that step, and so no query is ever made on a
\* hosted backend that was built without a credential.
C22_HostedFailsFast ==
    [][/\ HostedIn(cache', agents') \ HostedIn(cache, agents) # {} =>
              /\ last'.op = "__init__"
              /\ last'.llm.kind = "env"
              /\ last'.llm.v.t = "str"
              /\ last'.llm.v.s # ""
       /\ (/\ last'.op = "__init__"
           /\ last'.llm.kind = "env"
           /\ NoApiKey(last'.llm.v)
           /\ ~agents[last'.who].built
           /\ threads'[last'.who].model = "gpt"
           /\ cache["gpt"] = NoBackend) =>
              /\ Called("gpt", FALSE, last'.who) \in
                     {log'[i] : i \in (Len(log) + 1)..Len(log')}
              /\ cache'["gpt"] = NoBackend
              /\ agents'[last'.who].agent.kind # "gpt"]_vars

\* the hosted identity was requested without a credential: the constructor
\* failed and the Agent fell back to the default backend
C22_Witness ==
    /\ last.op = "__init__"
    /\ last.llm = [kind |-> "env", v |-> JLit("null")]
    /\ threads[last.who].model = "gpt"
    /\ agents[last.who].built
    /\ agents[last.who].model = "mistral"
    /\ agents[last.who].agent.kind = "mistral"
    /\ cache["gpt"] = NoBackend

\* with a credential the hosted backend was built, cached and queried
C22_WitnessBuilt ==
    /\ last.op = "get_intent_and_response"
    /\ agents[last.who].agent.kind = "gpt"
    /\ cache["gpt"] = agents[last.who].agent

(***************************************************************************)
(* The parser and blank responses (specification SpecParse)                *)
(***************************************************************************)

\* what is left of the raw text after its first line that is not blank,
\* trimmed: the response of the line-based fallback
LineRemainder ==
    IF FirstLineNo = 0 THEN ""
    ELSE strip(join(SubSeq(RawLines, FirstLineNo + 1, Len(RawLines))))

\* C23: the parser never returns a pair whose response is empty once
\* trimmed.  For a JSON object whose response is empty or blank the decoded
\* object is discarded and the same raw text goes through the line-based
\* fallback; when nothing is left after the first line the parser raises
\* ValueError and returns no pair.
C23_NoBlankResponse ==
    Parsed =>
        /\ ~last.res.raised =>
               /\ Len(last.res.val) = 2
               /\ strip(last.res.val[2]) # ""
        /\ \A c \in CasesOf(strip(RawText)) :
               strip(c[3]) = "" =>
                   /\ last.res # Return(<<Validated(c[2]), c[3]>>)
                   /\ last.res =
                          IF LineRemainder = "" THEN Raise("ValueError")
                          ELSE Return(<<Validated(RawLines[FirstLineNo]),
                                        LineRemainder>>)
        /\ (JsonStepFails(RawText) /\ LineRemainder = "") =>
               last.res = Raise("ValueError")

\* a JSON object over several lines with an empty response: the object was
\* discarded and the lines of the same text were read
C23_Witness ==
    /\ Parsed
    /\ RawText = JsonObjectPretty("card_issues", "")
    /\ last.res =
           Return(<<"general_inquiry",
                    "\"intent\": \"card_issues\",\n  \"response\": \"\"\n}">>)

\* a one-line JSON object with a blank response: nothing is left for the
\* line-based fallback and no pair is returned
C23_WitnessRaise ==
    /\ Parsed
    /\ RawText = JsonObject("card_issues", "  ")
    /\ LineRemainder = ""
    /\ last.res = Raise("ValueError")

(***************************************************************************)
(* What a construction hands to its caller (specification SpecLife)        *)
(***************************************************************************)

\* C24 as stated: every Agent whose construction returned normally holds a
\* backend object; no Agent without a backend is handed to the caller.
C24_BuiltAgentHoldsBackend ==
    \A a \in AgentIds : agents[a].built => agents[a].agent # NoBackend

\* C25: whatever constructions, fallbacks, cache hits and clear_cache calls
\* were made, the identity of every Agent that holds a backend names the kind
\* of that backend, and the cache entry under key k is a backend of kind k.
C25_IdentityNamesBackend ==
    /\ \A a \in AgentIds :
           (agents[a].built /\ agents[a].agent # NoBackend) =>
               agents[a].agent.kind = agents[a].model
    /\ \A k \in Identities : cache[k] # NoBackend => cache[k].kind = k

\* tinyllama was requested, its constructor failed, and the Agent took the
\* cached hosted backend: its identity is gpt; the cache was cleared since
C25_Witness ==
    \E a \in AgentIds :
        /\ agents[a].built
        /\ threads[a].model = "tinyllama"
        /\ agents[a].model = "gpt"
        /\ agents[a].agent.kind = "gpt"
        /\ cache = EmptyCache

(***************************************************************************)
(* The chat UI, main.py.  One action is one run of the script for one      *)
(* event of the browser session; st.stop() and st.rerun() end the run.     *)
(***************************************************************************)

\* main.py:31-33
RATE_LIMIT == 60

MAX_LOGIN_ATTEMPTS == 5

LOGIN_TIMEOUT == 300

\* a Send is made while the chat history holds fewer messages
MaxHistory == 2

\* latest time.time() of the runs about the rate limit and about the login
RateHorizon == 120

LoginHorizon == 600

\* `if x:` for x None or a number
Truthy(x) == x # None /\ x[1] # 0

\* what a function of the UI leaves: the session state and what it returned
Left(s, ok) == [state |-> s, ok |-> ok]

\* check_rate_limit, main.py:1096-1099
RateTracked(s, now) ==
    IF s.last_request_time = None
    THEN [s EXCEPT !.last_request_time = Some(now), !.request_count = 0]
    ELSE s

\* check_rate_limit, main.py:1101-1116
RateChecked(s, now) ==
    IF now - s.last_request_time[1] >= 60
    THEN Left([s EXCEPT !.request_count = 0, !.last_request_time = Some(now)], TRUE)
    ELSE IF s.request_count >= RATE_LIMIT THEN Left(s, FALSE)
    ELSE Left([s EXCEPT !.request_count = @ + 1], TRUE)

\* check_rate_limit() (main.py:1082-1121) at time now.  Both keys exist in
\* every session state, and nothing in the try block raises on numbers.
check_rate_limit(s, now) == RateChecked(RateTracked(s, now), now)

\* a login gate that lets every attempt through
handle_login_attempt_open(s, now) == Left(s, TRUE)

\* handle_login_attempt() (main.py:1168-1188) at time now
handle_login_attempt(s, now) ==
    IF s.login_attempts >= MAX_LOGIN_ATTEMPTS /\ Truthy(s.last_login_attempt)
    THEN IF now - s.last_login_attempt[1] < LOGIN_TIMEOUT
         THEN Left(s, FALSE)
         ELSE Left([s EXCEPT !.login_attempts = 0], TRUE)
    ELSE Left(s, TRUE)

\* a reset that keeps the Agent of the session
reset_session_keepagent(s) ==
    init_session_state(
        [key \in DOMAIN s \cap {"show_dashboard", "show_profile", "agent",
                                "model_initialized", "loaded_model"} |-> s[key]])

\* reset_session() (main.py:1190-1200): every key but the two is deleted,
\* then init_session_state() runs
reset_session(s) ==
    init_session_state(
        [key \in DOMAIN s \cap {"show_dashboard", "show_profile"} |-> s[key]])

\* an event of the UI that calls no Agent
UiEvent(op, outcome) ==
    [op |-> op, who |-> 0, llm |-> LlmNotCalled, res |-> Return(<<outcome>>)]

\* the number of the Agent st.session_state.agent refers to, 0 for None
AgentOf(s) == IF s.agent = None THEN 0 ELSE s.agent[1]

\* the Agents and their threads once the session has let go of Agent a
\* (st.session_state.agent is the only reference to it): the object is gone
Dropped(of, a, gone) == IF a = 0 THEN of ELSE [of EXCEPT ![a] = gone]

\* time passes between two runs
Tick(d, horizon) ==
    /\ clock + d <= horizon
    /\ clock' = clock + d
    /\ last' = UiEvent("tick", "")
    /\ UNCHANGED <<cache, agents, log, threads, session, db>>

(***************************************************************************)
(* The rate limit of one session                                           *)
(***************************************************************************)

\* history of the runs about the rate limit: from one admitted call on, the
\* time of that call (at) and the number of calls admitted in the 60 seconds
\* that start with it (n).  This is the history after a call at time now
\* that returned admitted; start tells whether the 60 seconds watched begin
\* with this call
Watched(lg, now, admitted, start) ==
    IF ~admitted THEN lg
    ELSE IF lg = <<>>
    THEN (IF start THEN <<[ev |-> "watch", at |-> now, n |-> 1]>> ELSE lg)
    ELSE IF now < lg[1].at + 60
    THEN <<[ev |-> "watch", at |-> lg[1].at, n |-> lg[1].n + 1]>>
    ELSE lg

InitRate ==
    /\ cache = EmptyCache
    /\ agents = [a \in AgentIds |-> NoAgent]
    /\ last = [op |-> "start", who |-> 0, llm |-> LlmNotCalled, res |-> Pending]
    /\ log = <<>>
    /\ threads = NoThreads
    /\ UiStart

\* the session state and the history after check_rate_limit() left r
RateCall(r, start) ==
    /\ session' = r.state
    /\ last' = UiEvent("check_rate_limit", r.ok)
    /\ log' = Watched(log, clock, r.ok, start)
    /\ UNCHANGED <<cache, agents, threads, clock, db>>

\* one call of check_rate_limit() (main.py:800), for a Send of the session
CheckRateLimit(start) == RateCall(check_rate_limit(session, clock), start)

NextRate ==
    \/ \E start \in BOOLEAN : CheckRateLimit(start)
    \/ \E d \in {59, 60} : Tick(d, RateHorizon)

SpecRate == InitRate /\ [][NextRate]_vars

\* C27 as stated: in no interval of 60 seconds does check_rate_limit admit
\* more than RATE_LIMIT calls, whatever the times of the calls.
C27_AtMostRateLimitPerMinute ==
    log # <<>> => log[1].n <= RATE_LIMIT

(***************************************************************************)
(* The login form of one session                                           *)
(***************************************************************************)

\* main.py:1065-1076 after the gate let the attempt through: auth is what
\* db.authenticate_user gave: a user, no user, or an exception
Authenticated(s, now, auth) ==
    IF auth = "user" THEN [s EXCEPT !.user = Some("user")]
    ELSE IF auth = "invalid"
    THEN [s EXCEPT !.login_attempts = @ + 1, !.last_login_attempt = Some(now)]
    ELSE s

\* what the run of a submitted login form came to: rejected by the gate,
\* stopped for a missing field, or the outcome of the credential check
LoginOutcome(gate, filled, auth) ==
    IF ~gate.ok THEN "locked" ELSE IF ~filled THEN "missing" ELSE auth

\* the session state after the run
LoginState(gate, now, filled, auth) ==
    IF gate.ok /\ filled THEN Authenticated(gate.state, now, auth) ELSE gate.state

\* the run of the login form (main.py:1045-1078) once handle_login_attempt()
\* left gate.  The history of these runs is the time of the most recent
\* failed attempt.
LoginRun(gate, filled, auth) ==
    /\ session' = LoginState(gate, clock, filled, auth)
    /\ last' = UiEvent("login", LoginOutcome(gate, filled, auth))
    /\ log' = IF LoginOutcome(gate, filled, auth) = "invalid"
              THEN <<[ev |-> "failed", at |-> clock]>> ELSE log
    /\ UNCHANGED <<cache, agents, threads, clock, db>>

\* the login form is submitted (main.py:1045-1078); filled: both fields
\* have text
LoginSubmit(filled, auth) ==
    /\ session.user = None
    /\ LoginRun(handle_login_attempt(session, clock), filled, auth)

\* the Logout button (main.py:1272-1275)
Logout ==
    /\ session.user # None
    /\ session' = reset_session(session)
    /\ agents' = Dropped(agents, AgentOf(session), NoAgent)
    /\ threads' = Dropped(threads, AgentOf(session), Idle)
    /\ last' = UiEvent("logout", "")
    /\ UNCHANGED <<cache, log, clock, db>>

NextLogin ==
    \/ \E filled \in BOOLEAN, auth \in {"user", "invalid", "error"} :
           LoginSubmit(filled, auth)
    \/ \E d \in {LOGIN_TIMEOUT - 1, LOGIN_TIMEOUT} : Tick(d, LoginHorizon)
    \/ Logout

SpecLogin == InitRate /\ [][NextLogin]_vars

C28_WitnessAfterTimeout ==
    /\ last = UiEvent("login", "invalid")
    /\ session.login_attempts = 1
    /\ session.last_login_attempt = Some(LOGIN_TIMEOUT + 1)
    /\ clock = LOGIN_TIMEOUT + 1

(***************************************************************************)
(* The chat view of a logged-in session: model selection, Agent, Send      *)
(***************************************************************************)

\* the next Agent object of the process, 0 when the run has built them all
FreeSlot ==
    IF \A a \in AgentIds : threads[a].pc # "idle" THEN 0
    ELSE CHOOSE a \in AgentIds :
             /\ threads[a].pc = "idle"
             /\ \A b \in 1..(a - 1) : threads[b].pc # "idle"

\* Agent(model=model) at main.py:1132-1135 for the session state s, run with
\* the cache c; a is the Agent it creates
AgentFor(s, c, ok, a) == _initialize_model(from_name(s.agent_model), c, ok, a)

\* initialize_agent() (main.py:1123-1150) on the session state s; r is the
\* outcome of Agent(model=model).  ok = FALSE: the run ended with st.stop()
initialize_agent(s, r, a) ==
    IF s.model_initialized THEN Left(s, TRUE)
    ELSE IF r.raised THEN Left(s, FALSE)
    ELSE Left([s EXCEPT !.agent = Some(a),
                        !.loaded_model = Some(from_name(s.agent_model)),
                        !.model_initialized = TRUE], TRUE)

\* the thread of an Agent after Agent(model) ran to r: when it raised there
\* is no object
Constructed(r, model) ==
    IF r.raised THEN Idle ELSE [pc |-> "done", model |-> model, k |-> 0]

\* what initialize_agent() does to the process: nothing when the model is
\* initialized, one Agent construction otherwise.  The history is the
\* constructor calls of the latest construction.
AgentInitialized(ok) ==
    IF session.model_initialized
    THEN UNCHANGED <<cache, agents, log, threads>>
    ELSE /\ FreeSlot # 0
         /\ cache' = AgentFor(session, cache, ok, FreeSlot).cache
         /\ agents' = [agents EXCEPT
                          ![FreeSlot] = AgentBuilt(AgentFor(session, cache, ok, FreeSlot))]
         /\ log' = ConstructorCalls(from_name(session.agent_model), cache, ok, FreeSlot)
         /\ threads' = [threads EXCEPT
                           ![FreeSlot] = Constructed(AgentFor(session, cache, ok, FreeSlot),
                                                     from_name(session.agent_model))]

\* the Agent object st.session_state.agent refers to once initialize_agent()
\* has run
Holder(ok) ==
    IF ~session.model_initialized
    THEN AgentBuilt(AgentFor(session, cache, ok, FreeSlot))
    ELSE IF session.agent = None THEN NoAgent
    ELSE agents[session.agent[1]]

\* a row of db.addQuery (main.py:826-836): the intent, the model name of the
\* metadata, and, as history, the kind of the backend that answered
Row(intent, model, answered_by) ==
    [intent |-> intent, model |-> model, answered_by |-> answered_by]

\* what a run of Send left: the session state, the rows stored, how it ended
Sent(s, rows, ended) == [state |-> s, rows |-> rows, ended |-> ended]

\* st.session_state.agent.get_intent_and_response(...) (main.py:814-816)
Asked(holder, out) ==
    IF ~holder.built THEN Raise("AttributeError")
    ELSE AgentGetIntentAndResponse(holder.agent, out)

\* main.py:811-875: pair is what the Agent answered, sentiment what
\* analyze_sentiment gave, stored whether db.addQuery returned (with the id
\* of the row, 1 here: the rows are not told apart)
SendAnswered(s, holder, pair, sentiment, stored) ==
    IF pair.raised \/ pair.val[1] = "" \/ pair.val[2] = "" \/ ~stored
    THEN Sent([s EXCEPT !.chat_history = Append(@, [type |-> "bot", content |-> ApologyMessage])],
              <<>>, "failed")
    ELSE Sent([s EXCEPT !.query_id = 1,
                        !.chat_history =
                            Append(@, [type |-> "bot", content |-> pair.val[2],
                                       intent |-> pair.val[1],
                                       sentiment |-> sentiment.val[1]]),
                        !.user_query = ""],
              <<Row(pair.val[1], s.agent_model, holder.agent.kind)>>, "answered")

\* main.py:800-809: limited is what check_rate_limit() left
SendLimited(limited, holder, out, sent, stored) ==
    IF ~limited.ok THEN Sent(limited.state, <<>>, "limited")
    ELSE SendAnswered([limited.state EXCEPT
                          !.chat_history =
                              Append(@, [type |-> "user",
                                         content |-> limited.state.user_query])],
                      holder, Asked(holder, out),
                      AgentAnalyzeSentiment(holder.agent, sent), stored)

\* show_chat_interface (main.py:634-875) for a click on Send with the text
\* query typed in: initialized is what initialize_agent() left
SendRun(initialized, holder, query, out, sent, stored) ==
    IF ~initialized.ok THEN Sent(initialized.state, <<>>, "stopped")
    ELSE SendLimited(check_rate_limit([initialized.state EXCEPT !.user_query = query],
                                      clock),
                     holder, out, sent, stored)

\* the chat view is shown: a user is logged in and neither the dashboard nor
\* the profile is selected (main.py:1213, 1278-1283)
ChatShown ==
    /\ session.user # None
    /\ ~session.show_dashboard
    /\ ~session.show_profile

\* a run that shows the chat view with no button clicked (main.py:645-646)
OpenChat(ok) ==
    /\ ChatShown
    /\ AgentInitialized(ok)
    /\ session' = initialize_agent(session, AgentFor(session, cache, ok, FreeSlot),
                                   FreeSlot).state
    /\ last' = [op |-> "open",
                who |-> AgentOf(initialize_agent(session,
                                    AgentFor(session, cache, ok, FreeSlot),
                                    FreeSlot).state),
                llm |-> LlmNotCalled, res |-> Return(<<>>)]
    /\ UNCHANGED <<clock, db>>

\* the state after the run of Send came to run
SendDone(run, out) ==
    /\ session' = run.state
    /\ db' = IF run.rows = <<>> THEN db ELSE run.rows
    /\ last' = [op |-> "send", who |-> AgentOf(run.state), llm |-> out,
                res |-> Return(<<run.ended>>)]
    /\ UNCHANGED clock

\* the Send button with a message typed in (main.py:799-875)
Send(ok, out, sent, stored) ==
    /\ ChatShown
    /\ Len(session.chat_history) < MaxHistory
    /\ AgentInitialized(ok)
    /\ SendDone(SendRun(initialize_agent(session,
                                         AgentFor(session, cache, ok, FreeSlot),
                                         FreeSlot),
                        Holder(ok), "hi", out, sent, stored),
                out)

\* a model selector that takes the choice and keeps the Agent
SwitchModel_keepagent(choice) ==
    /\ session.user # None
    /\ choice # session.agent_model
    /\ session' = [session EXCEPT !.agent_model = choice]
    /\ last' = UiEvent("switch", choice)
    /\ UNCHANGED <<cache, agents, log, threads, clock, db>>

\* another model is chosen in the selector (main.py:1251-1269)
SwitchModel(choice) ==
    /\ session.user # None
    /\ choice # session.agent_model
    /\ session' = [session EXCEPT !.agent_model = choice,
                                  !.agent = None,
                                  !.model_initialized = FALSE]
    /\ agents' = Dropped(agents, AgentOf(session), NoAgent)
    /\ threads' = Dropped(threads, AgentOf(session), Idle)
    /\ last' = UiEvent("switch", choice)
    /\ UNCHANGED <<cache, log, clock, db>>

\* a navigation button of the sidebar (main.py:1229-1242)
Navigate(view) ==
    /\ session.user # None
    /\ session' = [session EXCEPT !.show_dashboard = (view = "dashboard"),
                                  !.show_profile = (view = "profile")]
    /\ last' = UiEvent("navigate", view)
    /\ UNCHANGED <<cache, agents, log, threads, clock, db>>

\* db.refresh_user gives no user (main.py:1216-1224, 489-496)
RefreshFails ==
    /\ session.user # None
    /\ session' = reset_session(session)
    /\ agents' = Dropped(agents, AgentOf(session), NoAgent)
    /\ threads' = Dropped(threads, AgentOf(session), Idle)
    /\ last' = UiEvent("reset", "")
    /\ UNCHANGED <<cache, log, clock, db>>

NextSession ==
    \/ LoginSubmit(TRUE, "user")
    \/ \E view \in {"chat", "dashboard", "profile"} : Navigate(view)
    \/ \E choice \in Identities : SwitchModel(choice)
    \/ Logout
    \/ RefreshFails
    \/ \E ok \in SUBSET {from_name(session.agent_model), "mistral"} : OpenChat(ok)
    \/ \E ok \in SUBSET {from_name(session.agent_model), "mistral"} :
           \E out \in {LlmRaise, LlmText("card_issues\nOk.")}, stored \in BOOLEAN :
               Send(ok, out, LlmText("NEGATIVE"), stored)

SpecSession == InitRate /\ [][NextSession]_vars

(***************************************************************************)
(* Properties of the chat UI (specification SpecSession)                   *)
(***************************************************************************)

\* C26 as stated: the model name in the metadata of a stored query is the
\* identity of the backend that produced the response, also when the Agent
\* fell back to another backend.
C26_RecordedModelAnswered ==
    db # <<>> => db[1].model = db[1].answered_by

\* C29: whenever model_initialized is set, st.session_state.agent is an
\* Agent that was constructed for the model selected now and loaded_model
\* is that model; right after the model is switched the Agent and the flag
\* are cleared; and every Send that got past initialize_agent() was handled
\* by an Agent, the one constructed for the model selected at that moment.
C29_AgentMatchesSelection ==
    /\ session.model_initialized =>
           /\ session.agent # None
           /\ agents[AgentOf(session)].built
           /\ threads[AgentOf(session)].model = session.agent_model
           /\ session.loaded_model = Some(session.agent_model)
    /\ last.op = "switch" =>
           /\ session.agent = None
           /\ ~session.model_initialized
           /\ session.agent_model = last.res.val[1]
    /\ (last.op = "send" /\ last.res.val[1] # "stopped") =>
           /\ last.who # 0
           /\ session.agent = Some(last.who)
           /\ agents[last.who].built
           /\ threads[last.who].model = session.agent_model

\* the default model was used first, then gpt was selected, and a Send was
\* answered by the Agent constructed for gpt
C29_Witness ==
    /\ last.op = "send"
    /\ last.res.val[1] = "answered"
    /\ session.agent_model = "gpt"
    /\ agents[last.who].agent.kind = "gpt"
    /\ cache["mistral"] # NoBackend

\* C30: a run that calls reset_session() (Logout, or a user that cannot be
\* loaded) leaves every key of the session state at its default (user None,
\* chat_history and user_query empty, agent None, model_initialized False,
\* the login and the rate-limit counters cleared, the selected model
\* mistral) except show_dashboard and show_profile, which keep their values.
C30_ResetRestoresDefaults ==
    [][(last'.op \in {"logout", "reset"} /\ session.user # None) =>
           /\ DOMAIN session' = DOMAIN defaults
           /\ \A key \in DOMAIN defaults \ {"show_dashboard", "show_profile"} :
                  session'[key] = defaults[key]
           /\ session'.user = None
           /\ session'.chat_history = <<>>
           /\ session'.user_query = ""
           /\ session'.agent = None
           /\ ~session'.model_initialized
           /\ session'.login_attempts = 0
           /\ session'.last_login_attempt = None
           /\ session'.request_count = 0
           /\ session'.last_request_time = None
           /\ session'.show_dashboard = session.show_dashboard
           /\ session'.show_profile = session.show_profile]_vars

\* a query was answered and stored, the dashboard was opened, and the user
\* logged out: the session is back at its defaults with the dashboard flag
\* still set
C30_Witness ==
    /\ last.op = "logout"
    /\ db # <<>>
    /\ session.show_dashboard
    /\ session.user = None
    /\ session.chat_history = <<>>
    /\ session.request_count = 0
    /\ session.agent = None

=============================================================================
